---- MODULE Spec2Model ----
(***************************************************************************)
(* State-machine model of td/telegram/StoryManager.cpp.                    *)
(*                                                                         *)
(* The manager is a single-threaded actor: every handler runs to           *)
(* completion, so each action below is one whole handler, with every       *)
(* nested call it makes.  Handlers are written as operators over a record  *)
(* m holding the manager's fields (and the environment they read); an      *)
(* action applies a handler to the current fields and commits the result.  *)
(***************************************************************************)
EXTENDS Integers, Sequences, FiniteSets, TLC

VARIABLES
  now,                            \* G()->unix_time()
  use_message_database,           \* G()->use_message_database()
  users,                          \* ContactsManager: per user is_contact, stories_hidden, is_premium
  stories,                        \* stories_ : StoryFullId -> Story
  max_story_global_id,            \* max_story_global_id_
  stories_by_global_id,           \* stories_by_global_id_
  active_stories,                 \* active_stories_ : DialogId -> ActiveStories
  max_read_story_ids,             \* max_read_story_ids_
  failed_to_load_active_stories,  \* failed_to_load_active_stories_
  story_lists,                    \* story_lists_[2]
  deleted_story_full_ids,         \* deleted_story_full_ids_
  inaccessible_story_full_ids,    \* inaccessible_story_full_ids_ (keys)
  failed_to_load_story_full_ids,  \* failed_to_load_story_full_ids_
  being_edited_stories,           \* being_edited_stories_ : StoryFullId -> BeingEditedStory
  edit_generations,               \* edit_generations_
  edit_story_count,               \* history: number of the PendingStory objects made by edit_story
  being_uploaded_edits,           \* being_uploaded_files_ (edited stories): the PendingStory objects
  edit_queries,                   \* EditStoryQuery requests in flight: PendingStory and what was sent
  finished_edits,                 \* EditStoryQuery results on their way to delete_pending_story
  promise_results,                \* history: the results every promise of edit_story has received
  binlog,                         \* the EditStory log events in the binlog
  delete_queries,                 \* DeleteStoriesQuery requests in flight: the stories to delete
  binlog_events,                  \* the log events read from the binlog at start, for on_binlog_events
  old_binlog,                     \* the DeleteStoryOnServer, ReadStoriesOnServer and
                                  \* LoadDialogExpiringStories log events in the binlog
  load_expiring_stories_log_event_ids,  \* load_expiring_stories_log_event_ids_
  opened_owned_stories,           \* opened_owned_stories_ : StoryFullId -> open count
  interaction_info_update_timeout,  \* interaction_info_update_timeout_.has_timeout()
  views_queries,                  \* GetStoriesViewsQuery requests in flight: their story_ids
  cached_story_viewers,           \* cached_story_viewers_ : StoryFullId -> the entry is not nullptr
  story_viewers_queries,          \* GetStoryViewsListQuery requests in flight: their story_id
  recording,                      \* the histories below are kept (a client and a database observer)
  last_call,                      \* history: the handler that ran last and its arguments
  sent_updates,                   \* history: the td_api updates the last handler sent
  story_db_queries,               \* history: the add_story and delete_story calls of the last handler
  set_timeouts,                   \* history: the set_timeout_in calls of the last handler
  active_stories_db_queries,      \* history: the add_active_stories and delete_active_stories calls
  load_requests,                  \* get_active_story_list and GetAllStoriesQuery requests in flight, per list
  load_promise_results,           \* history: the promises of load queues the last handler completed
  read_queries,                   \* ReadStoriesQuery requests in flight, per owner
  read_sent,                      \* history: max_id of every ReadStoriesQuery issued, per owner
  read_log_event_ids,             \* the log_event_id of every ReadStoriesQuery in flight, per owner
  pending_story_views,            \* pending_story_views_ : DialogId -> PendingStoryViews
  view_queries,                   \* IncrementStoryViewsQuery requests in flight, per owner
  viewed_story_ids,               \* history: the story ids of the last IncrementStoryViewsQuery, per owner
  send_story_count,               \* send_story_count_
  yet_unsent_stories,             \* yet_unsent_stories_
  being_uploaded_files,           \* being_uploaded_files_ (new stories, by send_story_num)
  ready_to_send_stories,          \* ready_to_send_stories_
  was_reuploaded,                 \* pending stories with was_reuploaded_ set
  send_queries,                   \* SendStoryQuery requests in flight (by send_story_num)
  sent_requests,                  \* history: send_story_num of every SendStoryQuery issued
  finished_sends,                 \* history: send_story_num of every new story passed to delete_pending_story
  send_log_event_ids,             \* PendingStory::log_event_id_ of the new stories (by send_story_num)
  send_binlog,                    \* the SendStory log events in the binlog
  send_log_event_count,           \* the identifier the binlog gave to its last SendStory log event
  archive_all_stories,            \* the option archive_all_stories
  need_synchronize_archive_all_stories,   \* the option need_synchronize_archive_all_stories
  has_active_synchronize_archive_all_stories_query,  \* has_active_synchronize_archive_all_stories_query_
  toggle_queries,                 \* ToggleAllStoriesHiddenQuery requests in flight: the value sent
  toggle_sent,                    \* history: the value of every ToggleAllStoriesHiddenQuery issued
  option_changes,                 \* history: the number of changes of the option archive_all_stories
  close_flag,                     \* G()->close_flag()
  crashed                         \* a CHECK failed (LOG(FATAL)): the process is gone

vars == <<now, use_message_database, users, stories, max_story_global_id, stories_by_global_id,
          active_stories, max_read_story_ids, failed_to_load_active_stories, story_lists,
          deleted_story_full_ids, inaccessible_story_full_ids, failed_to_load_story_full_ids,
          being_edited_stories, edit_generations, edit_story_count, being_uploaded_edits,
          edit_queries, finished_edits, promise_results, binlog, delete_queries,
          binlog_events, old_binlog, load_expiring_stories_log_event_ids,
          opened_owned_stories, interaction_info_update_timeout, views_queries,
          cached_story_viewers, story_viewers_queries,
          recording, last_call, sent_updates, story_db_queries, set_timeouts,
          active_stories_db_queries, load_requests, load_promise_results,
          read_queries, read_sent, read_log_event_ids, pending_story_views, view_queries,
          viewed_story_ids, send_story_count,
          yet_unsent_stories, being_uploaded_files, was_reuploaded, ready_to_send_stories,
          send_queries, sent_requests, finished_sends,
          send_log_event_ids, send_binlog, send_log_event_count,
          archive_all_stories, need_synchronize_archive_all_stories,
          has_active_synchronize_archive_all_stories_query, toggle_queries, toggle_sent,
          option_changes, close_flag, crashed>>

-----------------------------------------------------------------------------
(* Bounds of the model *)

MaxTime == 3          \* the clock runs from 1 to MaxTime
MaxGlobalId == 3      \* stories registered in one run
story_viewers_expiration_delay == 1   \* the option story_viewers_expiration_delay, in ticks
MaxReadSent == 2      \* ReadStoriesQuery requests issued per owner in one run
MaxSends == 3         \* send_story calls in one run
MaxSendRequests == 4  \* SendStoryQuery requests issued in one run
MaxLoadQueries == 1   \* promises queued on one load of a story list
MaxEdits == 2         \* edit_story calls in one run
MaxOpens == 2         \* times an owned story is opened and not closed
MaxViewsQueries == 2  \* GetStoriesViewsQuery requests in flight
MaxDeletes == 2       \* DeleteStoriesQuery requests in flight

(* Identities *)

MyId == 1             \* td_->contacts_manager_->get_my_id()
ChangelogId == 3      \* get_changelog_story_dialog_id()
Owners == {1, 2, 3, 4}
StoryIds == {1, 2}
FullIds == Owners \X StoryIds

Main == "main"
Archive == "archive"
NoList == "none"      \* StoryListId() : is_valid() is false
StoryListIds == {Main, Archive}

-----------------------------------------------------------------------------
(* Small helpers on maps (FlatHashMap / WaitFreeHashMap) *)

MapSet(f, k, v) == [x \in (DOMAIN f) \cup {k} |-> IF x = k THEN v ELSE f[x]]
MapErase(f, k) == [x \in (DOMAIN f) \ {k} |-> f[x]]
MapGet(f, k, default) == IF k \in DOMAIN f THEN f[k] ELSE default

EmptyMap == [x \in {} |-> 0]

Max(a, b) == IF a >= b THEN a ELSE b
MinOf(set) == CHOOSE x \in set : \A y \in set : x <= y

Contains(seq, x) == \E i \in 1..Len(seq) : seq[i] = x
RemoveAll(seq, x) == SelectSeq(seq, LAMBDA y : y # x)
Last(seq) == seq[Len(seq)]

-----------------------------------------------------------------------------
(* DialogDate: (order, dialog_id), sorted by decreasing order and then by  *)
(* decreasing dialog_id.  An order is the int64 hi * 2^33 + lo, kept as    *)
(* the pair of its digits in radix 2^33, with lo < 2^33.                   *)

ZeroOrder == [hi |-> 0, lo |-> 0]
MaxOrder == [hi |-> 1024, lo |-> 0]   \* stands for std::numeric_limits<int64>::max()

OrderLess(a, b) == a.hi < b.hi \/ (a.hi = b.hi /\ a.lo < b.lo)

DialogDate(order, dialog_id) == [order |-> order, dialog_id |-> dialog_id]
MIN_DIALOG_DATE == DialogDate(MaxOrder, 0)
MAX_DIALOG_DATE == DialogDate(ZeroOrder, 0)

DialogDateLess(a, b) ==
  OrderLess(b.order, a.order) \/ (a.order = b.order /\ a.dialog_id > b.dialog_id)
DialogDateLessEq(a, b) == a = b \/ DialogDateLess(a, b)

-----------------------------------------------------------------------------
(* The fields the story, active-stories and story-list handlers work on.   *)

NoCall == [name |-> "", owner_dialog_id |-> 0, id |-> 0, arg |-> 0, now |-> 0]

\* id: the story, or the number of the PendingStory;  arg: one more argument of the handler
Call(name, owner_dialog_id, id, arg) ==
  [name |-> name, owner_dialog_id |-> owner_dialog_id, id |-> id, arg |-> arg, now |-> now]

\* td_api updates: updateStory, updateStoryDeleted, updateChatActiveStories, updateStoryListChatCount
Update(type, owner_dialog_id, story_id, story_list_id, count) ==
  [type |-> type, owner_dialog_id |-> owner_dialog_id, story_id |-> story_id,
   story_list_id |-> story_list_id, count |-> count]

Cur ==
  [now |-> now, use_message_database |-> use_message_database, users |-> users,
   stories |-> stories, max_story_global_id |-> max_story_global_id,
   stories_by_global_id |-> stories_by_global_id, active_stories |-> active_stories,
   max_read_story_ids |-> max_read_story_ids,
   failed_to_load_active_stories |-> failed_to_load_active_stories,
   story_lists |-> story_lists, deleted_story_full_ids |-> deleted_story_full_ids,
   inaccessible_story_full_ids |-> inaccessible_story_full_ids,
   failed_to_load_story_full_ids |-> failed_to_load_story_full_ids,
   being_edited_stories |-> being_edited_stories, edit_generations |-> edit_generations,
   edit_story_count |-> edit_story_count, being_uploaded_edits |-> being_uploaded_edits,
   edit_queries |-> edit_queries, finished_edits |-> finished_edits,
   promise_results |-> promise_results, binlog |-> binlog, delete_queries |-> delete_queries,
   binlog_events |-> binlog_events, old_binlog |-> old_binlog,
   load_expiring_stories_log_event_ids |-> load_expiring_stories_log_event_ids,
   opened_owned_stories |-> opened_owned_stories,
   interaction_info_update_timeout |-> interaction_info_update_timeout,
   views_queries |-> views_queries,
   cached_story_viewers |-> cached_story_viewers,
   story_viewers_queries |-> story_viewers_queries,
   call |-> NoCall, updates |-> <<>>, db_queries |-> <<>>, timeouts |-> <<>>,
   active_db_queries |-> <<>>, load_requests |-> load_requests, load_results |-> <<>>,
   crashed |-> crashed, result |-> FALSE, order_changed |-> FALSE,
   need_save_to_database |-> FALSE]

Commit(t) ==
  \E done \in {t} :                       \* the handler has run once, to the state done
    /\ stories' = done.stories
    /\ max_story_global_id' = done.max_story_global_id
    /\ stories_by_global_id' = done.stories_by_global_id
    /\ active_stories' = done.active_stories
    /\ max_read_story_ids' = done.max_read_story_ids
    /\ failed_to_load_active_stories' = done.failed_to_load_active_stories
    /\ story_lists' = done.story_lists
    /\ deleted_story_full_ids' = done.deleted_story_full_ids
    /\ inaccessible_story_full_ids' = done.inaccessible_story_full_ids
    /\ failed_to_load_story_full_ids' = done.failed_to_load_story_full_ids
    /\ being_edited_stories' = done.being_edited_stories
    /\ edit_generations' = done.edit_generations
    /\ edit_story_count' = done.edit_story_count
    /\ being_uploaded_edits' = done.being_uploaded_edits
    /\ edit_queries' = done.edit_queries
    /\ finished_edits' = done.finished_edits
    /\ promise_results' = done.promise_results
    /\ binlog' = done.binlog
    /\ delete_queries' = done.delete_queries
    /\ binlog_events' = done.binlog_events
    /\ old_binlog' = done.old_binlog
    /\ load_expiring_stories_log_event_ids' = done.load_expiring_stories_log_event_ids
    /\ opened_owned_stories' = done.opened_owned_stories
    /\ interaction_info_update_timeout' = done.interaction_info_update_timeout
    /\ views_queries' = done.views_queries
    /\ cached_story_viewers' = done.cached_story_viewers
    /\ story_viewers_queries' = done.story_viewers_queries
    /\ last_call' = IF recording THEN done.call ELSE NoCall
    /\ sent_updates' = IF recording THEN done.updates ELSE <<>>
    /\ story_db_queries' = IF recording THEN done.db_queries ELSE <<>>
    /\ set_timeouts' = IF recording THEN done.timeouts ELSE <<>>
    /\ active_stories_db_queries' = IF recording THEN done.active_db_queries ELSE <<>>
    /\ load_requests' = done.load_requests
    /\ load_promise_results' = IF recording THEN done.load_results ELSE <<>>
    /\ crashed' = done.crashed
    /\ UNCHANGED <<now, use_message_database, recording>>

\* a handler that registers stories is taken while the identifiers stay within the bound
CommitBounded(t) ==
  \E bounded \in {t} : bounded.max_story_global_id <= MaxGlobalId /\ Commit(bounded)

Crash(m) == [m EXCEPT !.crashed = TRUE]   \* CHECK(...) failed

-----------------------------------------------------------------------------
(* Predicates on stories and owners *)

is_server(story_id) == story_id > 0       \* StoryId::is_server()

is_story_owned(owner_dialog_id) == owner_dialog_id = MyId

get_story(m, story_full_id) == story_full_id \in DOMAIN m.stories    \* != nullptr

is_active_story(m, story_full_id) ==
  /\ get_story(m, story_full_id)
  /\ m.now < m.stories[story_full_id].expire_date

is_subscribed_to_dialog_stories(m, owner_dialog_id) ==
  \/ owner_dialog_id = ChangelogId
  \/ owner_dialog_id = MyId
  \/ m.users[owner_dialog_id].is_contact

get_dialog_story_list_id(m, owner_dialog_id) ==
  IF ~is_subscribed_to_dialog_stories(m, owner_dialog_id) THEN NoList
  ELSE IF owner_dialog_id # MyId /\ m.users[owner_dialog_id].stories_hidden THEN Archive
  ELSE Main

\* load_dialog_expiring_stories(owner_dialog_id, 0, source): the load is registered with a
\* new LoadDialogExpiringStories log event, if there is a message database.  The binlog
\* gives the event an identifier of its own, written -owner_dialog_id here.
load_dialog_expiring_stories_unsaved(m, owner_dialog_id) ==
  IF owner_dialog_id \in DOMAIN m.load_expiring_stories_log_event_ids THEN m
  ELSE IF m.use_message_database
  THEN [m EXCEPT !.load_expiring_stories_log_event_ids = MapSet(@, owner_dialog_id, 0 - owner_dialog_id),
                 !.old_binlog = @ \cup {0 - owner_dialog_id}]
  ELSE [m EXCEPT !.load_expiring_stories_log_event_ids = MapSet(@, owner_dialog_id, 0)]

-----------------------------------------------------------------------------
(* Story lists *)

\* Variant that forgets the owners in the list while the list is not fully loaded.
update_story_list_sent_total_count_server(m, story_list_id) ==
  LET story_list == m.story_lists[story_list_id]
      size == Cardinality(story_list.ordered_stories)
      new_total_count ==
        IF story_list.list_last_story_date # MAX_DIALOG_DATE
        THEN story_list.server_total_count
        ELSE size
  IN IF story_list.server_total_count = -1 THEN m
     ELSE IF story_list.sent_total_count = new_total_count THEN m
     ELSE [m EXCEPT !.story_lists[story_list_id].sent_total_count = new_total_count,
                    !.updates = Append(@, Update("updateStoryListChatCount", 0, 0, story_list_id,
                                                 new_total_count))]

update_story_list_sent_total_count(m, story_list_id) ==
  LET story_list == m.story_lists[story_list_id]
      size == Cardinality(story_list.ordered_stories)
      new_total_count ==
        IF story_list.list_last_story_date # MAX_DIALOG_DATE
        THEN Max(size, story_list.server_total_count)
        ELSE size
  IN IF story_list.server_total_count = -1 THEN m
     ELSE IF story_list.sent_total_count = new_total_count THEN m
     ELSE [m EXCEPT !.story_lists[story_list_id].sent_total_count = new_total_count,
                    !.updates = Append(@, Update("updateStoryListChatCount", 0, 0, story_list_id,
                                                 new_total_count))]

\* Variant that leaves the pair of the owner in the list.
delete_active_stories_from_story_list_kept(m, owner_dialog_id, a) ==
  IF a.story_list_id = NoList THEN m
  ELSE LET pair == DialogDate(a.private_order, owner_dialog_id)
       IN IF pair \in m.story_lists[a.story_list_id].ordered_stories
          THEN m
          ELSE Crash(m)

delete_active_stories_from_story_list(m, owner_dialog_id, a) ==
  IF a.story_list_id = NoList THEN m
  ELSE LET pair == DialogDate(a.private_order, owner_dialog_id)
       IN IF pair \in m.story_lists[a.story_list_id].ordered_stories
          THEN [m EXCEPT !.story_lists[a.story_list_id].ordered_stories = @ \ {pair}]
          ELSE Crash(m)                                   \* CHECK(is_deleted)

\* int64 values as four 16-bit limbs, the least significant first
Int64Of(n) == <<n % 65536, n \div 65536, 0, 0>>          \* int32 n >= 0 widened to int64
Int64Bit(k) == [i \in 1..4 |-> IF i = (k \div 16) + 1 THEN 2 ^ (k % 16) ELSE 0]  \* static_cast<int64>(1) << k
Int64Add(x, y) ==
  LET s1 == x[1] + y[1]
      s2 == x[2] + y[2] + (s1 \div 65536)
      s3 == x[3] + y[3] + (s2 \div 65536)
      s4 == x[4] + y[4] + (s3 \div 65536)
  IN <<s1 % 65536, s2 % 65536, s3 % 65536, s4 % 65536>>
\* the digits of an int64 in radix 2^33
OrderOf(x) ==
  [hi |-> (x[3] \div 2) + x[4] * 32768,
   lo |-> x[1] + x[2] * 65536 + (x[3] % 2) * 65536 * 65536]

new_private_order_int64_swapped(date, is_premium, is_changelog, has_unread, is_self) ==
  LET o1 == Int64Of(date)
      o2 == IF is_premium THEN Int64Add(o1, Int64Bit(35)) ELSE o1
      o3 == IF is_changelog THEN Int64Add(o2, Int64Bit(34)) ELSE o2
      o4 == IF has_unread THEN Int64Add(o3, Int64Bit(33)) ELSE o3
  IN IF is_self THEN Int64Add(o4, Int64Bit(36)) ELSE o4

new_private_order_int64(date, is_premium, is_changelog, has_unread, is_self) ==
  LET o1 == Int64Of(date)
      o2 == IF is_premium THEN Int64Add(o1, Int64Bit(33)) ELSE o1
      o3 == IF is_changelog THEN Int64Add(o2, Int64Bit(34)) ELSE o2
      o4 == IF has_unread THEN Int64Add(o3, Int64Bit(35)) ELSE o3
  IN IF is_self THEN Int64Add(o4, Int64Bit(36)) ELSE o4

new_private_order(m, owner_dialog_id, a) ==
  LET last_story_id == Last(a.story_ids)
  IN OrderOf(new_private_order_int64(m.stories[<<owner_dialog_id, last_story_id>>].date,
                                     m.users[owner_dialog_id].is_premium,
                                     owner_dialog_id = ChangelogId,
                                     a.max_read_story_id < last_story_id,
                                     owner_dialog_id = MyId))

update_active_stories_order(m, owner_dialog_id) ==
  LET a == m.active_stories[owner_dialog_id]
      inserted(d, story_list_id, pair) ==
        IF pair \in d.story_lists[story_list_id].ordered_stories
        THEN Crash(d)                                     \* CHECK(is_inserted)
        ELSE [d EXCEPT !.story_lists[story_list_id].ordered_stories = @ \cup {pair}]
      old_list_updated(d, story_list_id) ==
        IF a.story_list_id # story_list_id /\ a.story_list_id # NoList
        THEN update_story_list_sent_total_count(d, a.story_list_id)
        ELSE d
      fields_updated(m1, order, new_public_order, story_list_id) ==
        [m1 EXCEPT !.active_stories[owner_dialog_id] =
                     [a EXCEPT !.private_order = order, !.public_order = new_public_order,
                               !.story_list_id = story_list_id],
                   !.updates =
                     IF /\ a.story_list_id # story_list_id
                        /\ a.story_list_id # NoList /\ a.public_order # ZeroOrder
                     THEN Append(@, Update("updateChatActiveStories", owner_dialog_id, 0,
                                           a.story_list_id, 0))
                     ELSE @,
                   !.order_changed =       \* the value update_active_stories_order returns
                     a.public_order # new_public_order \/ a.story_list_id # story_list_id,
                   !.need_save_to_database =
                     a.private_order # order \/ a.story_list_id # story_list_id]
      ordered(order, story_list_id, pair) ==
        fields_updated(
          IF order = ZeroOrder THEN Crash(m)              \* CHECK(new_private_order != 0)
          ELSE IF story_list_id # NoList THEN
            IF a.private_order # order \/ a.story_list_id # story_list_id THEN
              update_story_list_sent_total_count(
                old_list_updated(
                  inserted(delete_active_stories_from_story_list(m, owner_dialog_id, a),
                           story_list_id, pair),
                  story_list_id),
                story_list_id)
            ELSE m
          ELSE IF a.story_list_id # NoList THEN
            update_story_list_sent_total_count(
              delete_active_stories_from_story_list(m, owner_dialog_id, a), a.story_list_id)
          ELSE m,
          order,
          IF story_list_id # NoList
             /\ DialogDateLessEq(pair, m.story_lists[story_list_id].list_last_story_date)
          THEN order ELSE ZeroOrder,
          story_list_id)
      with_order(order) ==
        ordered(order, get_dialog_story_list_id(m, owner_dialog_id), DialogDate(order, owner_dialog_id))
  IN IF a.story_ids = <<>> \/ ~get_story(m, <<owner_dialog_id, Last(a.story_ids)>>)
     THEN Crash(m)                    \* CHECK(!story_ids_.empty()), CHECK(last_story != nullptr)
     ELSE with_order(new_private_order(m, owner_dialog_id, a))

\* updateChatActiveStories with the active stories of the owner as they are in d
send_update_chat_active_stories(d, owner_dialog_id) ==
  [d EXCEPT !.updates =
     Append(@, IF owner_dialog_id \in DOMAIN d.active_stories
               THEN Update("updateChatActiveStories", owner_dialog_id, 0,
                           d.active_stories[owner_dialog_id].story_list_id,
                           Len(d.active_stories[owner_dialog_id].story_ids))
               ELSE Update("updateChatActiveStories", owner_dialog_id, 0,
                           get_dialog_story_list_id(d, owner_dialog_id), 0))]

get_story_info(d, story_full_id) ==           \* story_id 0: StoryInfo() with an invalid StoryId
  IF ~is_active_story(d, story_full_id)
  THEN [story_id |-> 0, date |-> 0, expire_date |-> 0]
  ELSE [story_id |-> story_full_id[2], date |-> d.stories[story_full_id].date,
        expire_date |-> d.stories[story_full_id].expire_date]

\* is_null: the active_stories argument is nullptr
save_active_stories(d, owner_dialog_id, is_null) ==
  LET a == d.active_stories[owner_dialog_id]
      infos == [i \in 1..Len(a.story_ids) |-> get_story_info(d, <<owner_dialog_id, a.story_ids[i]>>)]
      story_infos == SelectSeq(infos, LAMBDA story_info : is_server(story_info.story_id))
  IN IF ~d.use_message_database THEN d
     ELSE IF is_null
     THEN [d EXCEPT !.active_db_queries =
             Append(@, [op |-> "delete_active_stories", owner_dialog_id |-> owner_dialog_id,
                        story_list_id |-> NoList, order |-> ZeroOrder, story_infos |-> <<>>])]
     ELSE IF story_infos = <<>>
     THEN Crash(d)                       \* SavedActiveStories::store: CHECK(!story_infos_.empty())
     ELSE [d EXCEPT !.active_db_queries =
             Append(@, [op |-> "add_active_stories", owner_dialog_id |-> owner_dialog_id,
                        story_list_id |-> a.story_list_id,
                        order |-> IF a.story_list_id # NoList THEN a.private_order ELSE ZeroOrder,
                        story_infos |-> story_infos])]

on_dialog_active_stories_order_updated(m, owner_dialog_id) ==
  LET ordered(d) == IF d.order_changed THEN send_update_chat_active_stories(d, owner_dialog_id) ELSE d
      saved(d) ==
        IF d.need_save_to_database /\ ~d.crashed
        THEN save_active_stories(d, owner_dialog_id, FALSE)
        ELSE d
  IN IF owner_dialog_id \in DOMAIN m.active_stories
     THEN saved(ordered(update_active_stories_order(m, owner_dialog_id)))
     ELSE m

-----------------------------------------------------------------------------
(* Active stories *)

NewActiveStories ==                      \* make_unique<ActiveStories>()
  [max_read_story_id |-> 0, story_ids |-> <<>>, story_list_id |-> NoList,
   private_order |-> ZeroOrder, public_order |-> ZeroOrder]

\* Variant that inherits the stashed value without comparing it to story_ids[0].
inherited_max_read_story_id_unchecked(existed, max_read_story_id, story_ids, old_max_read_story_id) ==
  IF /\ ~existed
     /\ old_max_read_story_id # 0
     /\ old_max_read_story_id > max_read_story_id
  THEN old_max_read_story_id
  ELSE max_read_story_id

\* The max_read value of a newly created entry: the stashed one if it is newer.
inherited_max_read_story_id(existed, max_read_story_id, story_ids, old_max_read_story_id) ==
  IF /\ ~existed
     /\ old_max_read_story_id # 0
     /\ old_max_read_story_id > max_read_story_id
     /\ old_max_read_story_id >= story_ids[1]
  THEN old_max_read_story_id
  ELSE max_read_story_id

on_update_active_stories(m, owner_dialog_id, max_read_story_id_arg, story_ids_arg, from_database_arg) ==
  LET existed == owner_dialog_id \in DOMAIN m.active_stories
      decremented(d, l, from_database) ==
        IF /\ ~from_database
           /\ d.story_lists[l].is_reloaded_server_total_count
           /\ d.story_lists[l].server_total_count > Cardinality(d.story_lists[l].ordered_stories)
        THEN [d EXCEPT !.story_lists[l].server_total_count = @ - 1]
        ELSE d
      erased(m2) ==
        send_update_chat_active_stories(
          [m2 EXCEPT !.active_stories = MapErase(@, owner_dialog_id)], owner_dialog_id)
      failed(m1) == [m1 EXCEPT !.failed_to_load_active_stories = @ \cup {owner_dialog_id}]
      deleted(m1, from_database) ==
        IF from_database THEN m1 ELSE save_active_stories(m1, owner_dialog_id, TRUE)
      emptied(from_database) ==
        failed(deleted(
          IF existed THEN
            erased(
              IF m.active_stories[owner_dialog_id].story_list_id = NoList THEN m
              ELSE update_story_list_sent_total_count(
                     decremented(
                       delete_active_stories_from_story_list(
                         m, owner_dialog_id, m.active_stories[owner_dialog_id]),
                       m.active_stories[owner_dialog_id].story_list_id, from_database),
                     m.active_stories[owner_dialog_id].story_list_id))
          ELSE [m EXCEPT !.max_read_story_ids = MapErase(@, owner_dialog_id)],
          from_database))
      assigned(m2, max_read_story_id, story_ids) ==
        [m2 EXCEPT !.active_stories[owner_dialog_id].max_read_story_id = max_read_story_id,
                   !.active_stories[owner_dialog_id].story_ids = story_ids]
      created ==
        IF existed THEN [m EXCEPT !.failed_to_load_active_stories = @ \ {owner_dialog_id}]
        ELSE [m EXCEPT !.failed_to_load_active_stories = @ \ {owner_dialog_id},
                       !.active_stories = MapSet(@, owner_dialog_id, NewActiveStories),
                       !.max_read_story_ids = MapErase(@, owner_dialog_id)]
      ordered(d, is_changed) ==
        IF is_changed \/ d.order_changed THEN send_update_chat_active_stories(d, owner_dialog_id)
        ELSE d
      saved(d, is_changed, from_database) ==
        IF (is_changed \/ d.need_save_to_database) /\ ~from_database /\ ~d.crashed
        THEN save_active_stories(d, owner_dialog_id, FALSE)
        ELSE d
      reordered(d, is_changed, from_database) ==
        saved(ordered(update_active_stories_order(d, owner_dialog_id), is_changed),
              is_changed, from_database)
      updated(max_read_story_id, story_ids, from_database) ==
        IF story_ids = <<>> THEN emptied(from_database)
        ELSE LET d == assigned(created,
                               inherited_max_read_story_id(existed, max_read_story_id, story_ids,
                                 MapGet(m.max_read_story_ids, owner_dialog_id, 0)),
                               story_ids)
             IN reordered(d, ~existed \/ d.active_stories[owner_dialog_id]
                                           # m.active_stories[owner_dialog_id],
                          from_database)
      filtered(story_ids) ==
        updated(IF story_ids = <<>> \/ max_read_story_id_arg < story_ids[1] THEN 0
                ELSE max_read_story_id_arg,
                story_ids,
                from_database_arg /\ Len(story_ids) = Len(story_ids_arg))
  IN filtered(SelectSeq(story_ids_arg,
                LAMBDA story_id : is_server(story_id)
                                  /\ is_active_story(m, <<owner_dialog_id, story_id>>)))

-----------------------------------------------------------------------------
(* Stories *)

NewStory ==                              \* make_unique<Story>()
  [date |-> 0, expire_date |-> 0, is_pinned |-> FALSE, has_content |-> FALSE,
   caption |-> 0, global_id |-> 0, is_update_sent |-> FALSE]

\* the caption and the is_being_edited flag of the td_api::story object of a story with content
get_story_object(d, story_full_id) ==
  LET is_being_edited ==
        /\ is_story_owned(story_full_id[1]) /\ is_server(story_full_id[2])
        /\ story_full_id \in DOMAIN d.being_edited_stories
  IN [is_null |-> \/ ~get_story(d, story_full_id)
                  \/ ~d.stories[story_full_id].has_content
                  \/ /\ ~is_story_owned(story_full_id[1])
                     /\ ~d.stories[story_full_id].is_pinned
                     /\ ~is_active_story(d, story_full_id),
      is_being_edited |-> is_being_edited,
      caption |-> IF is_being_edited /\ d.being_edited_stories[story_full_id].edit_caption
                  THEN d.being_edited_stories[story_full_id].caption
                  ELSE IF get_story(d, story_full_id) THEN d.stories[story_full_id].caption
                  ELSE 0]

send_update_story(d, story_full_id) ==
  IF get_story_object(d, story_full_id).is_null THEN Crash(d)     \* CHECK(story_object != nullptr)
  ELSE [d EXCEPT !.stories[story_full_id].is_update_sent = TRUE,
                 !.updates = Append(@, Update("updateStory", story_full_id[1], story_full_id[2],
                                              NoList, get_story_object(d, story_full_id).caption))]

DbQuery(op, story_full_id) == [op |-> op, story_full_id |-> story_full_id]

\* StoryDb::add_story(story_full_id, expires_at, ...)
add_story(story_full_id, expires_at) ==
  [op |-> "add_story", story_full_id |-> story_full_id, expires_at |-> expires_at]

delete_story_from_database(d, story_full_id) ==
  IF d.use_message_database
  THEN [d EXCEPT !.db_queries = Append(@, DbQuery("delete_story", story_full_id))]
  ELSE d

\* story_expire_timeout_ or story_can_get_viewers_timeout_ .set_timeout_in(global_id, timeout)
SetTimeout(timer, story_global_id, timeout) ==
  [timer |-> timer, story_global_id |-> story_global_id, timeout |-> timeout]

get_story_viewers_expire_date(d, story_full_id) ==
  d.stories[story_full_id].expire_date + story_viewers_expiration_delay

can_get_story_viewers(d, story_full_id) ==                \* is_ok()
  /\ is_story_owned(story_full_id[1])
  /\ is_server(story_full_id[2])
  /\ d.now < get_story_viewers_expire_date(d, story_full_id)

\* Variant that sends updateStory for every changed story, published or not.
on_story_changed_unpublished(d, story_full_id, is_changed, need_save_to_database, from_database) ==
  LET expiring(d1) ==
        IF is_active_story(d1, story_full_id)
        THEN [d1 EXCEPT !.timeouts =
                Append(@, SetTimeout("story_expire_timeout", d1.stories[story_full_id].global_id,
                                     d1.stories[story_full_id].expire_date - d1.now))]
        ELSE d1
      viewed(d1) ==
        IF can_get_story_viewers(d1, story_full_id)
        THEN [d1 EXCEPT !.timeouts =
                Append(@, SetTimeout("story_can_get_viewers_timeout",
                                     d1.stories[story_full_id].global_id,
                                     get_story_viewers_expire_date(d1, story_full_id) - d1.now))]
        ELSE d1
      sent(d1) == IF is_changed THEN send_update_story(d1, story_full_id) ELSE d1
      expires_at ==
        IF /\ is_active_story(d, story_full_id)
           /\ ~is_story_owned(story_full_id[1])
           /\ ~d.stories[story_full_id].is_pinned
        THEN d.stories[story_full_id].expire_date
        ELSE 0
      saved(d1) ==
        sent(IF d1.use_message_database /\ ~from_database
             THEN [d1 EXCEPT !.db_queries = Append(@, add_story(story_full_id, expires_at))]
             ELSE d1)
  IN IF is_active_story(d, story_full_id) /\ d.stories[story_full_id].global_id <= 0
     THEN Crash(d)
     ELSE IF ~d.stories[story_full_id].has_content \/ story_full_id[2] <= 0
     THEN viewed(expiring(d))
     ELSE IF is_changed \/ need_save_to_database THEN saved(viewed(expiring(d)))
     ELSE viewed(expiring(d))

on_story_changed(d, story_full_id, is_changed, need_save_to_database, from_database) ==
  LET expiring(d1) ==
        IF is_active_story(d1, story_full_id)
        THEN [d1 EXCEPT !.timeouts =
                Append(@, SetTimeout("story_expire_timeout", d1.stories[story_full_id].global_id,
                                     d1.stories[story_full_id].expire_date - d1.now))]
        ELSE d1
      viewed(d1) ==
        IF can_get_story_viewers(d1, story_full_id)
        THEN [d1 EXCEPT !.timeouts =
                Append(@, SetTimeout("story_can_get_viewers_timeout",
                                     d1.stories[story_full_id].global_id,
                                     get_story_viewers_expire_date(d1, story_full_id) - d1.now))]
        ELSE d1
      sent(d1) ==
        IF is_changed /\ d1.stories[story_full_id].is_update_sent
        THEN send_update_story(d1, story_full_id)
        ELSE d1
      expires_at ==               \* non-owned expired non-pinned stories must be deleted
        IF /\ is_active_story(d, story_full_id)
           /\ ~is_story_owned(story_full_id[1])
           /\ ~d.stories[story_full_id].is_pinned
        THEN d.stories[story_full_id].expire_date
        ELSE 0
      saved(d1) ==
        sent(IF d1.use_message_database /\ ~from_database
             THEN [d1 EXCEPT !.db_queries = Append(@, add_story(story_full_id, expires_at))]
             ELSE d1)
  IN IF is_active_story(d, story_full_id) /\ d.stories[story_full_id].global_id <= 0
     THEN Crash(d)                                       \* CHECK(story->global_id_ > 0)
     ELSE IF ~d.stories[story_full_id].has_content \/ story_full_id[2] <= 0
     THEN viewed(expiring(d))
     ELSE IF is_changed \/ need_save_to_database THEN saved(viewed(expiring(d)))
     ELSE viewed(expiring(d))

\* Variant that hands out the smallest id above the number of live stories.
register_story_global_id_reused(m, story_full_id) ==
  IF m.stories[story_full_id].global_id # 0 THEN Crash(m)     \* CHECK(story->global_id_ == 0)
  ELSE LET global_id == Cardinality(DOMAIN m.stories_by_global_id) + 1
       IN [m EXCEPT !.max_story_global_id = Max(@, global_id),
                    !.stories[story_full_id].global_id = global_id,
                    !.stories_by_global_id = MapSet(@, global_id, story_full_id)]

register_story_global_id(m, story_full_id) ==
  IF m.stories[story_full_id].global_id # 0 THEN Crash(m)     \* CHECK(story->global_id_ == 0)
  ELSE LET global_id == m.max_story_global_id + 1
       IN [m EXCEPT !.max_story_global_id = global_id,
                    !.stories[story_full_id].global_id = global_id,
                    !.stories_by_global_id = MapSet(@, global_id, story_full_id)]

unregister_story_global_id(m, story_full_id) ==
  IF m.stories[story_full_id].global_id <= 0 THEN Crash(m)    \* CHECK(story->global_id_ > 0)
  ELSE [m EXCEPT !.stories_by_global_id = MapErase(@, m.stories[story_full_id].global_id)]

CoerceDate(date) == IF date <= 0 THEN 1 ELSE date
CoerceExpireDate(date, expire_date) ==
  IF expire_date <= CoerceDate(date) THEN CoerceDate(date) + 1 ELSE expire_date

on_get_story_info_id(m, owner_dialog_id, story_info) ==
  IF ~is_server(story_info.story_id)
     \/ <<owner_dialog_id, story_info.story_id>> \in m.deleted_story_full_ids
  THEN 0 ELSE story_info.story_id

on_get_story_info(m, owner_dialog_id, story_info) ==
  LET story_full_id == <<owner_dialog_id, story_info.story_id>>
      m1 == IF get_story(m, story_full_id) THEN m
            ELSE LET r == register_story_global_id(
                            [m EXCEPT !.stories = MapSet(@, story_full_id, NewStory)],
                            story_full_id)
                 IN [r EXCEPT !.inaccessible_story_full_ids = @ \ {story_full_id}]
      updated(d) ==
        IF /\ d.stories[story_full_id].date = CoerceDate(story_info.date)
           /\ d.stories[story_full_id].expire_date
                = CoerceExpireDate(story_info.date, story_info.expire_date)
        THEN d
        ELSE on_story_changed(
               [d EXCEPT !.stories[story_full_id].date = CoerceDate(story_info.date),
                         !.stories[story_full_id].expire_date =
                            CoerceExpireDate(story_info.date, story_info.expire_date)],
               story_full_id, TRUE, TRUE, FALSE)
  IN IF on_get_story_info_id(m, owner_dialog_id, story_info) = 0 THEN m
     ELSE updated(m1)

RECURSIVE on_get_story_infos(_, _, _)
on_get_story_infos(m, owner_dialog_id, story_infos) ==
  IF story_infos = <<>> THEN m
  ELSE on_get_story_infos(on_get_story_info(m, owner_dialog_id, Head(story_infos)),
                          owner_dialog_id, Tail(story_infos))

on_get_active_stories_from_database(m, story_list_id_arg, owner_dialog_id, value) ==
  LET counted(m2, story_list_id) ==
        IF owner_dialog_id \in DOMAIN m2.active_stories \/ story_list_id = NoList THEN m2
        ELSE IF /\ ~m2.story_lists[story_list_id].is_reloaded_server_total_count
                /\ m2.story_lists[story_list_id].server_total_count
                     > Cardinality(m2.story_lists[story_list_id].ordered_stories)
        THEN update_story_list_sent_total_count(
               [m2 EXCEPT !.story_lists[story_list_id].server_total_count = @ - 1], story_list_id)
        ELSE m2
      updated(m2) ==
        counted(m2, IF story_list_id_arg # NoList THEN story_list_id_arg
                    ELSE get_dialog_story_list_id(m2, owner_dialog_id))
  IN IF owner_dialog_id \in DOMAIN m.active_stories THEN m
     ELSE IF value.kind = "empty"
     THEN [m EXCEPT !.failed_to_load_active_stories = @ \cup {owner_dialog_id}]
     ELSE updated(on_update_active_stories(
                    on_get_story_infos(m, owner_dialog_id, value.story_infos),
                    owner_dialog_id, value.max_read_story_id,
                    [i \in 1..Len(value.story_infos) |->
                       on_get_story_info_id(m, owner_dialog_id, value.story_infos[i])],
                    TRUE))

get_active_stories_force(m, owner_dialog_id, value) ==
  IF owner_dialog_id \in DOMAIN m.active_stories THEN m
  ELSE IF ~m.use_message_database \/ owner_dialog_id \in m.failed_to_load_active_stories THEN m
  ELSE IF value.kind = "error"
  THEN [m EXCEPT !.failed_to_load_active_stories = @ \cup {owner_dialog_id}]
  ELSE on_get_active_stories_from_database(m, NoList, owner_dialog_id, value)

parse_story_any(m, story_full_id, value) == value.has_content

parse_story(m, story_full_id, value) ==       \* TRUE iff the result is not nullptr
  /\ value.has_content
  /\ IF m.now < value.expire_date
     THEN ~(/\ story_full_id[1] \in DOMAIN m.active_stories
            /\ ~Contains(m.active_stories[story_full_id[1]].story_ids, story_full_id[2]))
     ELSE is_story_owned(story_full_id[1]) \/ value.is_pinned

on_get_story_from_database(m, story_full_id, value) ==
  IF get_story(m, story_full_id) /\ m.stories[story_full_id].has_content THEN m
  ELSE IF value.kind = "empty"
  THEN [m EXCEPT !.failed_to_load_story_full_ids = @ \cup {story_full_id}]
  ELSE IF ~parse_story(m, story_full_id, value)      \* parse_story deletes what it rejects
  THEN delete_story_from_database(
         [m EXCEPT !.failed_to_load_story_full_ids = @ \cup {story_full_id}], story_full_id)
  ELSE LET story == [NewStory EXCEPT !.date = value.date, !.expire_date = value.expire_date,
                                     !.is_pinned = value.is_pinned, !.has_content = TRUE]
           r == register_story_global_id(
                  [m EXCEPT !.stories = MapSet(@, story_full_id, story)], story_full_id)
       IN IF \/ story_full_id \in m.inaccessible_story_full_ids
             \/ story_full_id \in DOMAIN m.being_edited_stories
          THEN Crash(r)                       \* CHECK(!is_inaccessible_story(story_full_id)),
                                              \* CHECK(being_edited_stories_.count(...) == 0)
          ELSE on_story_changed(r, story_full_id, TRUE, FALSE, TRUE)

get_story_force_unchecked(m, story_full_id, value) ==
  IF get_story(m, story_full_id) /\ m.stories[story_full_id].has_content THEN m
  ELSE IF ~m.use_message_database THEN m
  ELSE IF value.kind = "error"
  THEN [m EXCEPT !.failed_to_load_story_full_ids = @ \cup {story_full_id}]
  ELSE on_get_story_from_database(m, story_full_id, value)

get_story_force(m, story_full_id, value) ==
  IF get_story(m, story_full_id) /\ m.stories[story_full_id].has_content THEN m
  ELSE IF \/ ~m.use_message_database
          \/ story_full_id \in m.failed_to_load_story_full_ids
          \/ story_full_id \in m.inaccessible_story_full_ids
          \/ story_full_id \in m.deleted_story_full_ids
  THEN m
  ELSE IF value.kind = "error"
  THEN [m EXCEPT !.failed_to_load_story_full_ids = @ \cup {story_full_id}]
  ELSE on_get_story_from_database(m, story_full_id, value)

\* the story get_story_force returns is not nullptr
have_story_force(m, story_full_id) ==
  get_story(m, story_full_id) /\ m.stories[story_full_id].has_content

RECURSIVE insert_story_id(_, _)
insert_story_id(story_ids, story_id) ==       \* the insertion loop of on_get_new_story
  IF story_ids # <<>> /\ Last(story_ids) > story_id
  THEN Append(insert_story_id(SubSeq(story_ids, 1, Len(story_ids) - 1), story_id), Last(story_ids))
  ELSE Append(story_ids, story_id)

on_get_new_story_id(m, owner_dialog_id, story_item) ==
  IF \/ ~is_server(story_item.id)
     \/ <<owner_dialog_id, story_item.id>> \in m.deleted_story_full_ids
     \/ ~story_item.has_media
  THEN 0 ELSE story_item.id

on_get_new_story(m, owner_dialog_id, story_item, db) ==
  LET story_id == story_item.id
      story_full_id == <<owner_dialog_id, story_id>>
      inserted(m4) ==
        IF owner_dialog_id \notin DOMAIN m4.active_stories
        THEN IF is_subscribed_to_dialog_stories(m4, owner_dialog_id)
             THEN load_dialog_expiring_stories_unsaved(m4, owner_dialog_id)
             ELSE m4
        ELSE IF Contains(m4.active_stories[owner_dialog_id].story_ids, story_id) THEN m4
        ELSE on_update_active_stories(m4, owner_dialog_id,
               m4.active_stories[owner_dialog_id].max_read_story_id,
               insert_story_id(m4.active_stories[owner_dialog_id].story_ids, story_id), FALSE)
      changed(m3) ==
        IF ~is_active_story(m3, story_full_id) THEN m3
        ELSE inserted(get_active_stories_force(m3, owner_dialog_id, db.active))
      edits_content(m2) ==
        /\ story_full_id \in DOMAIN m2.being_edited_stories
        /\ m2.being_edited_stories[story_full_id].has_content
      edits_caption(m2) ==
        /\ story_full_id \in DOMAIN m2.being_edited_stories
        /\ m2.being_edited_stories[story_full_id].edit_caption
      merged(m2, is_new) ==
        changed(on_story_changed(
                  [m2 EXCEPT !.stories[story_full_id].has_content = TRUE,
                             !.stories[story_full_id].is_pinned = story_item.pinned,
                             !.stories[story_full_id].date = CoerceDate(story_item.date),
                             !.stories[story_full_id].expire_date =
                                CoerceExpireDate(story_item.date, story_item.expire_date),
                             !.stories[story_full_id].caption = story_item.caption],
                  story_full_id,
                  \/ is_new                                           \* is_changed
                  \/ m2.stories[story_full_id].is_pinned # story_item.pinned
                  \/ m2.stories[story_full_id].date # CoerceDate(story_item.date)
                  \/ m2.stories[story_full_id].expire_date
                       # CoerceExpireDate(story_item.date, story_item.expire_date)
                  \/ /\ m2.stories[story_full_id].caption # story_item.caption
                     /\ ~edits_caption(m2),
                  \/ edits_content(m2)                                \* need_save_to_database
                  \/ /\ m2.stories[story_full_id].caption # story_item.caption
                     /\ edits_caption(m2),
                  FALSE))
      registered(r) ==
        [r EXCEPT !.inaccessible_story_full_ids = @ \ {story_full_id},
                  !.failed_to_load_story_full_ids = @ \ {story_full_id}]
      loaded(m1) ==
        IF have_story_force(m1, story_full_id) THEN merged(m1, FALSE)
        ELSE merged(registered(register_story_global_id(
                      [m1 EXCEPT !.stories = MapSet(@, story_full_id, NewStory)], story_full_id)),
                    TRUE)
  IN IF on_get_new_story_id(m, owner_dialog_id, story_item) = 0 THEN m
     ELSE loaded(get_story_force(m, story_full_id, db.story))

on_delete_story(m, story_full_id, db) ==
  LET owner_dialog_id == story_full_id[1]
      story_id == story_full_id[2]
      removed(m5) ==
        IF /\ owner_dialog_id \in DOMAIN m5.active_stories
           /\ Contains(m5.active_stories[owner_dialog_id].story_ids, story_id)
        THEN on_update_active_stories(m5, owner_dialog_id,
               m5.active_stories[owner_dialog_id].max_read_story_id,
               RemoveAll(m5.active_stories[owner_dialog_id].story_ids, story_id), FALSE)
        ELSE m5
      erased(m3) ==
        delete_story_from_database(
          removed(get_active_stories_force(
                    [m3 EXCEPT !.stories = MapErase(@, story_full_id),
                               !.binlog = @ \ {MapGet(m3.being_edited_stories, story_full_id,
                                                       [log_event_id |-> 0]).log_event_id},
                               !.being_edited_stories = MapErase(@, story_full_id),
                               !.edit_generations = MapErase(@, story_full_id),
                               !.cached_story_viewers = MapErase(@, story_full_id)],
                    owner_dialog_id, db.active)),
          story_full_id)
      deleted(m2) ==
        IF m2.stories[story_full_id].is_update_sent
        THEN [m2 EXCEPT !.updates = Append(@, Update("updateStoryDeleted", owner_dialog_id,
                                                     story_id, NoList, 0))]
        ELSE m2
      loaded(m2) ==
        IF ~have_story_force(m2, story_full_id)
        THEN delete_story_from_database(m2, story_full_id)
        ELSE erased(unregister_story_global_id(deleted(m2), story_full_id))
  IN IF ~is_server(story_id) THEN m
     ELSE loaded(get_story_force(
                   [m EXCEPT !.inaccessible_story_full_ids = @ \cup {story_full_id}],
                   story_full_id, db.story))

on_get_story_item(m, owner_dialog_id, story_item, db) ==     \* the switch of on_get_user_stories
  IF story_item.kind = "deleted" THEN on_delete_story(m, <<owner_dialog_id, story_item.id>>, db)
  ELSE IF story_item.kind = "skipped"
  THEN on_get_story_info(m, owner_dialog_id,
         [story_id |-> story_item.id, date |-> story_item.date, expire_date |-> story_item.expire_date])
  ELSE on_get_new_story(m, owner_dialog_id, story_item, db)

on_get_story_item_id(m, owner_dialog_id, story_item) ==
  IF story_item.kind = "skipped"
  THEN on_get_story_info_id(m, owner_dialog_id,
         [story_id |-> story_item.id, date |-> story_item.date, expire_date |-> story_item.expire_date])
  ELSE on_get_new_story_id(m, owner_dialog_id, story_item)

RECURSIVE on_get_story_items(_, _, _, _)
on_get_story_items(m, owner_dialog_id, story_items, db) ==
  IF story_items = <<>> THEN m
  ELSE on_get_story_items(on_get_story_item(m, owner_dialog_id, Head(story_items), db),
                          owner_dialog_id, Tail(story_items), db)

on_get_user_stories(m, owner_dialog_id, user_stories, db) ==
  LET pushed(story_items) ==
        [i \in 1..Len(story_items) |-> on_get_story_item_id(m, owner_dialog_id, story_items[i])]
  IN on_update_active_stories(
       IF user_stories.is_null THEN m
       ELSE on_get_story_items(m, owner_dialog_id, user_stories.stories, db),
       owner_dialog_id,
       IF is_server(user_stories.max_read_id) THEN user_stories.max_read_id ELSE 0,
       pushed(SelectSeq(user_stories.stories, LAMBDA story_item : story_item.kind # "deleted")),
       FALSE)

\* Variant that returns true also when max_read_story_id is not larger.
on_update_read_stories_always(m, owner_dialog_id, max_read_story_id, value) ==
  LET loaded(m1) ==
        IF owner_dialog_id \notin DOMAIN m1.active_stories THEN
          IF max_read_story_id > MapGet(m1.max_read_story_ids, owner_dialog_id, 0)
          THEN [m1 EXCEPT !.max_read_story_ids = MapSet(@, owner_dialog_id, max_read_story_id),
                          !.result = TRUE]
          ELSE [m1 EXCEPT !.result = TRUE]
        ELSE IF max_read_story_id > m1.active_stories[owner_dialog_id].max_read_story_id
        THEN [on_update_active_stories(m1, owner_dialog_id, max_read_story_id,
                m1.active_stories[owner_dialog_id].story_ids, FALSE) EXCEPT !.result = TRUE]
        ELSE [m1 EXCEPT !.result = TRUE]
  IN loaded(get_active_stories_force(m, owner_dialog_id, value))

\* m.result is the value on_update_read_stories returns
on_update_read_stories(m, owner_dialog_id, max_read_story_id, value) ==
  LET loaded(m1) ==
        IF owner_dialog_id \notin DOMAIN m1.active_stories THEN
          IF max_read_story_id > MapGet(m1.max_read_story_ids, owner_dialog_id, 0)
          THEN [m1 EXCEPT !.max_read_story_ids = MapSet(@, owner_dialog_id, max_read_story_id),
                          !.result = TRUE]
          ELSE [m1 EXCEPT !.result = FALSE]
        ELSE IF max_read_story_id > m1.active_stories[owner_dialog_id].max_read_story_id
        THEN [on_update_active_stories(m1, owner_dialog_id, max_read_story_id,
                m1.active_stories[owner_dialog_id].story_ids, FALSE) EXCEPT !.result = TRUE]
        ELSE [m1 EXCEPT !.result = FALSE]
  IN loaded(get_active_stories_force(m, owner_dialog_id, value))

on_story_expire_timeout_kept(m, story_global_id, db) ==
  LET story_full_id == MapGet(m.stories_by_global_id, story_global_id, <<0, 0>>)
      owner_dialog_id == story_full_id[1]
  IN IF ~get_story(m, story_full_id) THEN m
     ELSE IF is_active_story(m, story_full_id)
     THEN on_story_changed(m, story_full_id, FALSE, FALSE, FALSE)
     ELSE IF /\ owner_dialog_id \in DOMAIN m.active_stories
             /\ Contains(m.active_stories[owner_dialog_id].story_ids, story_full_id[2])
     THEN on_update_active_stories(m, owner_dialog_id,
            m.active_stories[owner_dialog_id].max_read_story_id,
            m.active_stories[owner_dialog_id].story_ids, FALSE)
     ELSE m

\* Variant that takes a story that has not expired for expired.
on_story_expire_timeout_early(m, story_global_id, db) ==
  LET story_full_id == MapGet(m.stories_by_global_id, story_global_id, <<0, 0>>)
      owner_dialog_id == story_full_id[1]
      expired(m1) ==
        IF /\ owner_dialog_id \in DOMAIN m1.active_stories
           /\ Contains(m1.active_stories[owner_dialog_id].story_ids, story_full_id[2])
        THEN on_update_active_stories(m1, owner_dialog_id,
               m1.active_stories[owner_dialog_id].max_read_story_id,
               m1.active_stories[owner_dialog_id].story_ids, FALSE)
        ELSE m1
  IN IF ~get_story(m, story_full_id) THEN m
     ELSE expired(IF /\ ~is_story_owned(owner_dialog_id)
                     /\ m.stories[story_full_id].has_content
                     /\ ~m.stories[story_full_id].is_pinned
                  THEN on_delete_story(m, story_full_id, db)
                  ELSE m)

\* stories_by_global_id_.get gives StoryFullId() for an identifier that is not registered
on_story_expire_timeout(m, story_global_id, db) ==
  LET story_full_id == MapGet(m.stories_by_global_id, story_global_id, <<0, 0>>)
      owner_dialog_id == story_full_id[1]
      expired(m1) ==
        IF /\ owner_dialog_id \in DOMAIN m1.active_stories
           /\ Contains(m1.active_stories[owner_dialog_id].story_ids, story_full_id[2])
        THEN on_update_active_stories(m1, owner_dialog_id,
               m1.active_stories[owner_dialog_id].max_read_story_id,
               m1.active_stories[owner_dialog_id].story_ids, FALSE)
        ELSE m1
  IN IF ~get_story(m, story_full_id) THEN m
     ELSE IF is_active_story(m, story_full_id)
     THEN on_story_changed(m, story_full_id, FALSE, FALSE, FALSE)
     ELSE expired(IF /\ ~is_story_owned(owner_dialog_id)
                     /\ m.stories[story_full_id].has_content
                     /\ ~m.stories[story_full_id].is_pinned
                  THEN on_delete_story(m, story_full_id, db)
                  ELSE m)

\* Variant that purges the cached viewers whenever the timer fires.
on_story_can_get_viewers_timeout_purged(m, story_global_id) ==
  LET story_full_id == MapGet(m.stories_by_global_id, story_global_id, <<0, 0>>)
  IN IF ~get_story(m, story_full_id) THEN m
     ELSE [m EXCEPT !.cached_story_viewers = MapErase(@, story_full_id)]

on_story_can_get_viewers_timeout(m, story_global_id) ==
  LET story_full_id == MapGet(m.stories_by_global_id, story_global_id, <<0, 0>>)
      purged(m1) == [m1 EXCEPT !.cached_story_viewers = MapErase(@, story_full_id)]
  IN IF ~get_story(m, story_full_id) THEN m
     ELSE IF can_get_story_viewers(m, story_full_id)
     THEN on_story_changed(m, story_full_id, FALSE, FALSE, FALSE)
     ELSE purged(IF /\ m.stories[story_full_id].has_content
                    /\ m.stories[story_full_id].is_update_sent
                 THEN send_update_story(m, story_full_id)
                 ELSE m)

\* has_views: interaction_info_.get_view_count() is not 0;  from_cache: the cached viewers
\* hold the viewers asked for.  m.result is TRUE iff the promise is answered at once.
get_story_viewers(m, story_id, has_views, from_cache) ==
  LET story_full_id == <<MyId, story_id>>
      cached_viewers(m1) == m1.cached_story_viewers[story_full_id]
      touched == [m EXCEPT !.cached_story_viewers =       \* cached_story_viewers_[story_full_id]
                             IF story_full_id \in DOMAIN @ THEN @ ELSE MapSet(@, story_full_id, FALSE)]
  IN IF ~get_story(m, story_full_id) THEN [m EXCEPT !.result = TRUE]
     ELSE IF ~can_get_story_viewers(m, story_full_id) \/ ~has_views THEN [m EXCEPT !.result = TRUE]
     ELSE IF cached_viewers(touched) /\ m.stories[story_full_id].has_content /\ from_cache
     THEN [touched EXCEPT !.result = TRUE]
     ELSE [touched EXCEPT !.story_viewers_queries = @ \cup {story_id}]

\* is_changed: the view count of the response differs from interaction_info_
on_get_story_viewers(m, story_id, is_error, is_changed) ==
  LET story_full_id == <<MyId, story_id>>
      cached(m1) == [m1 EXCEPT !.cached_story_viewers = MapSet(@, story_full_id, TRUE)]
  IN IF is_error THEN m
     ELSE IF ~is_server(story_id) THEN Crash(m)           \* CHECK(story_id.is_server())
     ELSE IF ~get_story(m, story_full_id) THEN m
     ELSE IF ~m.stories[story_full_id].has_content THEN m
     ELSE cached(IF is_changed THEN on_story_changed(m, story_full_id, TRUE, TRUE, FALSE) ELSE m)

-----------------------------------------------------------------------------
(* Getting and editing of the stories of the user *)

\* get_story with only_local
get_story_local(m, story_full_id, db) ==
  LET loaded(m1) ==
        IF ~have_story_force(m1, story_full_id) THEN m1
        ELSE IF ~m1.stories[story_full_id].is_update_sent THEN send_update_story(m1, story_full_id)
        ELSE m1                      \* get_story_object sets is_update_sent_, that is set
  IN IF ~is_server(story_full_id[2]) THEN m
     ELSE loaded(get_story_force(m, story_full_id, db.story))

NoCaption == -1                          \* input_caption == nullptr

NewBeingEditedStory ==                   \* make_unique<BeingEditedStory>()
  [has_content |-> FALSE, caption |-> 0, edit_caption |-> FALSE, promises |-> <<>>,
   log_event_id |-> 0]

\* the PendingStory of an edit; num is the number of the edit_story call that made it
PendingStory(story_full_id, random_id, num, has_content) ==
  [story_full_id |-> story_full_id, random_id |-> random_id, num |-> num,
   has_content |-> has_content, was_reuploaded |-> FALSE]

set_promise(d, promise, result) ==
  [d EXCEPT !.promise_results = MapSet(@, promise, Append(MapGet(@, promise, <<>>), result))]

RECURSIVE set_promises(_, _, _)
set_promises(d, promises, result) ==
  IF promises = <<>> THEN d
  ELSE set_promises(set_promise(d, Head(promises), result), Tail(promises), result)

\* the test of do_edit_story and of delete_pending_story for an outdated edit
is_outdated_edit(d, pending_story) ==
  \/ ~get_story(d, pending_story.story_full_id)
  \/ pending_story.story_full_id \notin DOMAIN d.being_edited_stories
  \/ MapGet(d.edit_generations, pending_story.story_full_id, 0) # pending_story.random_id

do_edit_story(d, pending_story) ==
  IF is_outdated_edit(d, pending_story) THEN d
  ELSE IF ~d.stories[pending_story.story_full_id].has_content
  THEN Crash(d)                                        \* CHECK(story->content_ != nullptr)
  ELSE [d EXCEPT !.edit_queries = @ \cup              \* EditStoryQuery::send
          {[pending_story |-> pending_story,
            caption |-> d.being_edited_stories[pending_story.story_full_id].caption]}]

\* do_send_story of the PendingStory of an edit
do_send_story_edit(d, pending_story) ==
  IF ~pending_story.has_content \/ pending_story \in d.being_uploaded_edits
  THEN Crash(d)                                        \* CHECK(content != nullptr), CHECK(is_inserted)
  ELSE [d EXCEPT !.being_uploaded_edits = @ \cup {pending_story}]

\* Variant that resolves the promises of the edit and leaves its log event in the binlog.
delete_pending_story_edit_logged(d, pending_story, is_ok) ==
  LET story_full_id == pending_story.story_full_id
      finished(d1, promises) == set_promises(d1, promises, IF is_ok THEN "ok" ELSE "error")
  IN IF is_outdated_edit(d, pending_story) THEN d
     ELSE IF ~d.stories[story_full_id].has_content THEN Crash(d)
     ELSE finished(
            on_story_changed(
              [d EXCEPT !.being_edited_stories = MapErase(@, story_full_id)],
              story_full_id, TRUE, TRUE, FALSE),
            d.being_edited_stories[story_full_id].promises)

\* Variant that resolves the promises of the edit without looking at its generation.
delete_pending_story_edit_any(d, pending_story, is_ok) ==
  LET story_full_id == pending_story.story_full_id
      finished(d1, promises) == set_promises(d1, promises, IF is_ok THEN "ok" ELSE "error")
  IN IF ~get_story(d, story_full_id) \/ story_full_id \notin DOMAIN d.being_edited_stories THEN d
     ELSE IF ~d.stories[story_full_id].has_content THEN Crash(d)
     ELSE finished(
            on_story_changed(
              [d EXCEPT !.binlog = @ \ {d.being_edited_stories[story_full_id].log_event_id},
                        !.being_edited_stories = MapErase(@, story_full_id)],
              story_full_id, TRUE, TRUE, FALSE),
            d.being_edited_stories[story_full_id].promises)

\* delete_pending_story, the branch of an edit
delete_pending_story_edit(d, pending_story, is_ok) ==
  LET story_full_id == pending_story.story_full_id
      finished(d1, promises) == set_promises(d1, promises, IF is_ok THEN "ok" ELSE "error")
  IN IF is_outdated_edit(d, pending_story) THEN d
     ELSE IF ~d.stories[story_full_id].has_content
     THEN Crash(d)                                     \* CHECK(story->content_ != nullptr)
     ELSE finished(
            on_story_changed(
              [d EXCEPT !.binlog = @ \ {d.being_edited_stories[story_full_id].log_event_id},
                        !.being_edited_stories = MapErase(@, story_full_id)],
              story_full_id, TRUE, TRUE, FALSE),
            d.being_edited_stories[story_full_id].promises)

\* Variant that keeps the caption of an earlier edit that is still pending.
edited_caption_first(old_edited_story, is_caption_edited, input_caption) ==
  IF is_caption_edited /\ ~old_edited_story.edit_caption THEN input_caption
  ELSE old_edited_story.caption

\* the caption of the being-edited entry after edit_story
edited_caption(old_edited_story, is_caption_edited, input_caption) ==
  IF is_caption_edited THEN input_caption ELSE old_edited_story.caption

\* edit_story; promise is the number of the call
edit_story(m, story_id, has_input_content, input_caption, promise) ==
  LET story_full_id == <<MyId, story_id>>
      current_caption ==
        IF /\ story_full_id \in DOMAIN m.being_edited_stories
           /\ m.being_edited_stories[story_full_id].edit_caption
        THEN m.being_edited_stories[story_full_id].caption
        ELSE m.stories[story_full_id].caption
      is_caption_edited == input_caption # NoCaption /\ current_caption # input_caption
      edit_generation ==
        MapGet(m.edit_generations, story_full_id, 0)
          + (IF has_input_content THEN 1 ELSE 0) + (IF is_caption_edited THEN 1 ELSE 0)
      old_edited_story == MapGet(m.being_edited_stories, story_full_id, NewBeingEditedStory)
      log_event_id ==
        IF ~m.use_message_database THEN 0
        ELSE IF old_edited_story.log_event_id = 0 THEN promise           \* binlog_add
        ELSE old_edited_story.log_event_id                               \* binlog_rewrite
      edited_story ==
        [has_content |-> old_edited_story.has_content \/ has_input_content,
         caption |-> edited_caption(old_edited_story, is_caption_edited, input_caption),
         edit_caption |-> old_edited_story.edit_caption \/ is_caption_edited,
         promises |-> Append(old_edited_story.promises, promise),
         log_event_id |-> log_event_id]
      pending_story == PendingStory(story_full_id, edit_generation, promise, edited_story.has_content)
      sent(d) ==
        IF ~edited_story.has_content THEN do_edit_story(d, pending_story)
        ELSE do_send_story_edit(d, pending_story)
  IN IF ~get_story(m, story_full_id) \/ ~m.stories[story_full_id].has_content
     THEN set_promise(m, promise, "error")
     ELSE IF ~is_server(story_id) THEN set_promise(m, promise, "error")
     ELSE IF ~has_input_content /\ ~is_caption_edited THEN set_promise(m, promise, "ok")
     ELSE sent(on_story_changed(
                 [m EXCEPT !.being_edited_stories = MapSet(@, story_full_id, edited_story),
                           !.edit_generations = MapSet(@, story_full_id, edit_generation),
                           !.binlog = IF log_event_id = 0 THEN @ ELSE @ \cup {log_event_id}],
                 story_full_id, TRUE, TRUE, FALSE))


delete_story_on_server(m, story_full_id, db) ==
  on_delete_story([m EXCEPT !.deleted_story_full_ids = @ \cup {story_full_id},
                            !.delete_queries = Append(@, story_full_id)],
                  story_full_id, db)

delete_story(m, story_id, db) ==
  LET story_full_id == <<MyId, story_id>>
  IN IF ~get_story(m, story_full_id) THEN m                \* "Story not found"
     ELSE IF ~is_server(story_id) THEN m                   \* "Invalid story identifier"
     ELSE delete_story_on_server(m, story_full_id, db)

-----------------------------------------------------------------------------
(* Opened stories of the user and the update of their interaction info *)

schedule_interaction_info_update(m) ==
  [m EXCEPT !.interaction_info_update_timeout = TRUE]     \* kept when has_timeout()

\* open_story, the part for a story of the user;  the story is in stories_
open_story_owned(m, story_full_id) ==
  LET scheduled == IF m.opened_owned_stories = EmptyMap
                   THEN schedule_interaction_info_update(m) ELSE m
      open_count == MapGet(m.opened_owned_stories, story_full_id, 0) + 1   \* ++open_count
      counted == [scheduled EXCEPT !.opened_owned_stories = MapSet(@, story_full_id, open_count)]
  IN IF is_story_owned(story_full_id[1]) /\ is_server(story_full_id[2])
     THEN IF open_count = 1
          THEN [counted EXCEPT !.views_queries = Append(@, {story_full_id[2]})]
          ELSE counted
     ELSE m

\* close_story;  m.call.arg is the error code.  opened_owned_stories_[story_full_id]
\* inserts the open count 0 when the story has none
close_story(m, owner_dialog_id, story_id) ==
  LET story_full_id == <<owner_dialog_id, story_id>>
      call(code) == Call("close_story", owner_dialog_id, story_id, code)
      open_count == MapGet(m.opened_owned_stories, story_full_id, 0)
      found == [m EXCEPT !.opened_owned_stories = MapSet(@, story_full_id, open_count)]
      erased == [m EXCEPT !.opened_owned_stories = MapErase(@, story_full_id)]
  IN IF is_story_owned(owner_dialog_id) /\ is_server(story_id)
     THEN IF open_count = 0
          THEN [found EXCEPT !.call = call(400)]           \* "The story wasn't opened"
          ELSE IF open_count - 1 = 0
          THEN [erased EXCEPT !.interaction_info_update_timeout =        \* cancel_timeout()
                                 IF erased.opened_owned_stories = EmptyMap THEN FALSE ELSE @,
                              !.call = call(0)]
          ELSE [m EXCEPT !.opened_owned_stories[story_full_id] = open_count - 1,
                         !.call = call(0)]
     ELSE [m EXCEPT !.call = call(0)]

update_interaction_info(m) ==
  IF m.opened_owned_stories = EmptyMap THEN m
  ELSE IF \E story_full_id \in DOMAIN m.opened_owned_stories : story_full_id[1] # MyId
  THEN Crash(m)                                        \* CHECK(dialog_id == my_id)
  ELSE [m EXCEPT !.views_queries =
                   Append(@, {story_full_id[2] : story_full_id \in DOMAIN m.opened_owned_stories})]

RECURSIVE on_get_story_views_loop(_, _, _)
on_get_story_views_loop(m, story_ids, changed) ==
  IF story_ids = {} THEN m
  ELSE LET story_id == MinOf(story_ids)
           story_full_id == <<MyId, story_id>>
       IN on_get_story_views_loop(
            IF ~get_story(m, story_full_id) \/ ~m.stories[story_full_id].has_content THEN m
            ELSE IF story_id \in changed THEN on_story_changed(m, story_full_id, TRUE, TRUE, FALSE)
            ELSE m,
            story_ids \ {story_id}, changed)

on_get_story_views(m, story_ids, changed) ==
  on_get_story_views_loop(schedule_interaction_info_update(m), story_ids, changed)

-----------------------------------------------------------------------------
(* Loading of the story lists *)

NewStoryList ==                          \* StoryList, as default-constructed
  [state |-> "", server_total_count |-> -1, sent_total_count |-> -1,
   server_has_more |-> TRUE, database_has_more |-> FALSE,
   is_reloaded_server_total_count |-> FALSE,
   list_last_story_date |-> MIN_DIALOG_DATE,
   last_loaded_database_dialog_date |-> MIN_DIALOG_DATE,
   ordered_stories |-> {},
   load_list_from_database_queries |-> 0,     \* number of queued promises
   load_list_from_server_queries |-> 0,       \* number of queued promises
   is_next |-> FALSE]                         \* is_next of the GetAllStoriesQuery in flight

RECURSIVE SortedDates(_)
SortedDates(dates) ==                    \* iteration order of std::set<DialogDate>
  IF dates = {} THEN <<>>
  ELSE LET first == CHOOSE p \in dates : \A q \in dates \ {p} : DialogDateLess(p, q)
       IN <<first>> \o SortedDates(dates \ {first})

\* for (it = ...; ...; ++it) on_dialog_active_stories_order_updated(it->get_dialog_id()):
\* a call that moves the pair *it erases the node the iterator stands on, and the
\* following ++it is undefined; the loop then either goes on (resume) or ends.
RECURSIVE order_updated_loop(_, _, _)
order_updated_loop(m, dates, resume) ==
  IF dates = <<>> THEN m
  ELSE LET m1 == on_dialog_active_stories_order_updated(m, Head(dates).dialog_id)
           invalidated == Head(dates) \notin UNION {m1.story_lists[l].ordered_stories : l \in StoryListIds}
       IN IF invalidated /\ ~resume THEN m1
          ELSE order_updated_loop(m1, Tail(dates), resume)

\* Variant that leaves the owners of a page as they were published before.
order_updated_none(m, owner_dialog_ids) == m

RECURSIVE order_updated_all(_, _)
order_updated_all(m, owner_dialog_ids) ==
  IF owner_dialog_ids = <<>> THEN m
  ELSE order_updated_all(on_dialog_active_stories_order_updated(m, Head(owner_dialog_ids)),
                         Tail(owner_dialog_ids))

\* Variant that sends a GetAllStoriesQuery for every call.
load_active_stories_from_server_each(m, story_list_id, is_next) ==
  [m EXCEPT !.story_lists[story_list_id].load_list_from_server_queries = @ + 1,
            !.story_lists[story_list_id].is_next = is_next,
            !.load_requests[story_list_id].server = @ + 1]

\* the promise is pushed to load_list_from_server_queries_; the first one sends the query
load_active_stories_from_server(m, story_list_id, is_next) ==
  IF m.story_lists[story_list_id].load_list_from_server_queries = 0
  THEN [m EXCEPT !.story_lists[story_list_id].load_list_from_server_queries = 1,
                 !.story_lists[story_list_id].is_next = is_next,
                 !.load_requests[story_list_id].server = @ + 1]
  ELSE [m EXCEPT !.story_lists[story_list_id].load_list_from_server_queries = @ + 1]

\* the promise is pushed to load_list_from_database_queries_; the first one asks the database
load_active_stories_from_database(m, story_list_id) ==
  IF m.story_lists[story_list_id].load_list_from_database_queries = 0
  THEN [m EXCEPT !.story_lists[story_list_id].load_list_from_database_queries = 1,
                 !.load_requests[story_list_id].database = @ + 1]
  ELSE [m EXCEPT !.story_lists[story_list_id].load_list_from_database_queries = @ + 1]

\* set_promises(promises) and fail_promises(promises, error) of a load queue
set_load_promises(m, story_list_id, queue, count, is_error) ==
  [m EXCEPT !.load_results = Append(@, [story_list_id |-> story_list_id, queue |-> queue,
                                        count |-> count, is_error |-> is_error])]

\* Variant that does not update the sent total count of a list that became fully loaded.
load_active_stories_uncounted(m, story_list_id, resume) ==
  LET story_list == m.story_lists[story_list_id]
      min_story_date == story_list.list_last_story_date
      m1 == [m EXCEPT !.story_lists[story_list_id].list_last_story_date = MAX_DIALOG_DATE]
      rest == {p \in story_list.ordered_stories : DialogDateLess(min_story_date, p)}
  IN IF story_list.list_last_story_date = MAX_DIALOG_DATE THEN [m EXCEPT !.result = 404]
     ELSE IF story_list.database_has_more THEN
       IF ~m.use_message_database THEN Crash([m EXCEPT !.result = 0])
       ELSE load_active_stories_from_database([m EXCEPT !.result = 0], story_list_id)
     ELSE IF ~story_list.server_has_more THEN
       [order_updated_loop(m1, SortedDates(rest), resume) EXCEPT !.result = 404]
     ELSE load_active_stories_from_server([m EXCEPT !.result = 0], story_list_id, story_list.state # "")

\* Variant that leaves the cursor of a list that has no more owners where it is.
load_active_stories_unfinished(m, story_list_id, resume) ==
  LET story_list == m.story_lists[story_list_id]
  IN IF story_list.list_last_story_date = MAX_DIALOG_DATE THEN [m EXCEPT !.result = 404]
     ELSE IF story_list.database_has_more THEN
       IF ~m.use_message_database THEN Crash([m EXCEPT !.result = 0])
       ELSE load_active_stories_from_database([m EXCEPT !.result = 0], story_list_id)
     ELSE IF ~story_list.server_has_more THEN [m EXCEPT !.result = 404]
     ELSE load_active_stories_from_server([m EXCEPT !.result = 0], story_list_id, story_list.state # "")

\* m.result is the error the promise receives at once: 404 for "Not found", or 0 while it waits
load_active_stories(m, story_list_id, resume) ==
  LET story_list == m.story_lists[story_list_id]
      min_story_date == story_list.list_last_story_date
      m1 == [m EXCEPT !.story_lists[story_list_id].list_last_story_date = MAX_DIALOG_DATE]
      rest == {p \in story_list.ordered_stories : DialogDateLess(min_story_date, p)}
  IN IF story_list.list_last_story_date = MAX_DIALOG_DATE THEN [m EXCEPT !.result = 404]
     ELSE IF story_list.database_has_more THEN
       IF ~m.use_message_database
       THEN Crash([m EXCEPT !.result = 0])            \* CHECK(G()->use_message_database())
       ELSE load_active_stories_from_database([m EXCEPT !.result = 0], story_list_id)
     ELSE IF ~story_list.server_has_more THEN
       [update_story_list_sent_total_count(
          order_updated_loop(m1, SortedDates(rest), resume), story_list_id)
        EXCEPT !.result = 404]
     ELSE load_active_stories_from_server([m EXCEPT !.result = 0], story_list_id, story_list.state # "")

reload_active_stories(m) ==
  load_active_stories_from_server(load_active_stories_from_server(m, Main, FALSE), Archive, FALSE)

RECURSIVE on_get_active_stories_list_from_database(_, _, _)
on_get_active_stories_list_from_database(m, story_list_id, list) ==   \* the loop at its call
  IF list = <<>> THEN m
  ELSE on_get_active_stories_list_from_database(
         on_get_active_stories_from_database(m, story_list_id, Head(list).dialog_id, Head(list).value),
         story_list_id, Tail(list))

on_load_active_stories_from_database(m, story_list_id, result, resume) ==
  LET list == IF result.resolved THEN result.active_stories ELSE <<>>
      owner_dialog_ids == [i \in 1..Len(list) |-> list[i].dialog_id]
      max_story_date == result.next
      others(story_list) ==
        {p \in story_list.ordered_stories :
           /\ DialogDateLess(story_list.list_last_story_date, p)
           /\ DialogDateLessEq(p, max_story_date)
           /\ ~Contains(owner_dialog_ids, p.dialog_id)}
      advanced(m2) ==
        IF ~DialogDateLess(m2.story_lists[story_list_id].last_loaded_database_dialog_date, max_story_date)
        THEN m2
        ELSE IF ~DialogDateLess(m2.story_lists[story_list_id].list_last_story_date, max_story_date)
        THEN [m2 EXCEPT !.story_lists[story_list_id].last_loaded_database_dialog_date = max_story_date]
        ELSE order_updated_all(
               order_updated_loop(
                 [m2 EXCEPT !.story_lists[story_list_id].last_loaded_database_dialog_date = max_story_date,
                            !.story_lists[story_list_id].list_last_story_date = max_story_date],
                 SortedDates(others(m2.story_lists[story_list_id])), resume),
               owner_dialog_ids)
      resolved(m1) ==
        IF list = <<>>
        THEN [m1 EXCEPT !.story_lists[story_list_id].last_loaded_database_dialog_date = MAX_DIALOG_DATE,
                        !.story_lists[story_list_id].database_has_more = FALSE]
        ELSE update_story_list_sent_total_count(
               advanced(on_get_active_stories_list_from_database(m1, story_list_id, list)),
               story_list_id)
      answered(m0) ==
        IF result.kind = "error" THEN m0
        ELSE resolved(IF result.resolved THEN m0
                      ELSE [m0 EXCEPT !.story_lists[story_list_id].state = "",
                                      !.story_lists[story_list_id].server_has_more = TRUE])
  IN IF m.story_lists[story_list_id].load_list_from_database_queries = 0
     THEN Crash(m)                                        \* CHECK(!promises.empty())
     ELSE set_load_promises(
            answered([m EXCEPT !.story_lists[story_list_id].load_list_from_database_queries = 0]),
            story_list_id, "database", m.story_lists[story_list_id].load_list_from_database_queries,
            result.kind = "error")

\* the loop over stories->user_stories_ of on_load_active_stories_from_server;
\* acc = [m, max_story_date, owner_dialog_ids]
RECURSIVE on_get_all_user_stories(_, _, _)
on_get_all_user_stories(acc, user_stories_list, db) ==
  LET owner_dialog_id == Head(user_stories_list).dialog_id
      story_date(m1) == DialogDate(m1.active_stories[owner_dialog_id].private_order, owner_dialog_id)
      received(m1) ==
        IF owner_dialog_id \notin DOMAIN m1.active_stories
        THEN [acc EXCEPT !.m = m1]
        ELSE [m |-> m1,
              max_story_date |-> IF DialogDateLess(acc.max_story_date, story_date(m1))
                                 THEN story_date(m1) ELSE acc.max_story_date,
              owner_dialog_ids |-> Append(acc.owner_dialog_ids, owner_dialog_id)]
  IN IF user_stories_list = <<>> THEN acc
     ELSE on_get_all_user_stories(
            received(on_get_user_stories(acc.m, owner_dialog_id,
                                         Head(user_stories_list).user_stories, db)),
            Tail(user_stories_list), db)

\* Variant that keeps the owners the response does not name.
delete_dialogs_kept(m, dates) == m

RECURSIVE delete_dialogs(_, _)
delete_dialogs(m, dates) ==              \* the loop over delete_dialog_ids
  IF dates = <<>> THEN m
  ELSE delete_dialogs(
         load_dialog_expiring_stories_unsaved(
           on_update_active_stories(m, Head(dates).dialog_id, 0, <<>>, FALSE), Head(dates).dialog_id),
         Tail(dates))

on_load_active_stories_from_server(m, story_list_id, result, db) ==
  LET is_next == m.story_lists[story_list_id].is_next
      has_more == result.has_more /\ result.user_stories # <<>>
      delete_dialog_ids(story_list, min_story_date, max_story_date, owner_dialog_ids) ==
        {p \in story_list.ordered_stories :
           /\ DialogDateLess(min_story_date, p)
           /\ DialogDateLessEq(p, max_story_date)
           /\ ~Contains(owner_dialog_ids, p.dialog_id)}
      advanced(m2, max_story_date, owner_dialog_ids) ==
        IF DialogDateLess(m2.story_lists[story_list_id].list_last_story_date, max_story_date)
        THEN order_updated_all(
               [m2 EXCEPT !.story_lists[story_list_id].list_last_story_date = max_story_date],
               owner_dialog_ids)
        ELSE m2
      dated(m2, max_story_date, owner_dialog_ids) ==
        delete_dialogs(
          advanced(m2, max_story_date, owner_dialog_ids),
          SortedDates(delete_dialog_ids(
            m2.story_lists[story_list_id],
            IF is_next THEN m2.story_lists[story_list_id].list_last_story_date ELSE MIN_DIALOG_DATE,
            max_story_date, owner_dialog_ids)))
      received(acc) ==
        dated(acc.m, IF has_more THEN acc.max_story_date ELSE MAX_DIALOG_DATE, acc.owner_dialog_ids)
      answered(m0) ==
        IF result.kind = "error" THEN m0
        ELSE IF result.kind = "notModified"
        THEN [m0 EXCEPT !.story_lists[story_list_id].state = IF result.state = "" THEN @ ELSE result.state]
        ELSE update_story_list_sent_total_count(
               received(on_get_all_user_stories(
                 [m |-> [m0 EXCEPT
                           !.story_lists[story_list_id].state = IF result.state = "" THEN @ ELSE result.state,
                           !.story_lists[story_list_id].server_total_count = Max(result.count, 0),
                           !.story_lists[story_list_id].is_reloaded_server_total_count = TRUE,
                           !.story_lists[story_list_id].server_has_more = IF has_more THEN @ ELSE FALSE],
                  max_story_date |-> MIN_DIALOG_DATE, owner_dialog_ids |-> <<>>],
                 result.user_stories, db)),
               story_list_id)
  IN IF m.story_lists[story_list_id].load_list_from_server_queries = 0
     THEN Crash(m)                                        \* CHECK(!promises.empty())
     ELSE set_load_promises(
            answered([m EXCEPT !.story_lists[story_list_id].load_list_from_server_queries = 0]),
            story_list_id, "server", m.story_lists[story_list_id].load_list_from_server_queries,
            result.kind = "error")

-----------------------------------------------------------------------------
(* Read and view requests *)

MAX_VIEWED_STORIES == 200

NewPendingStoryViews == [story_ids |-> {}, has_query |-> FALSE]

ViewState ==
  [pending_story_views |-> pending_story_views, view_queries |-> view_queries,
   viewed_story_ids |-> viewed_story_ids, crashed |-> crashed]

CommitViews(v) ==
  /\ pending_story_views' = v.pending_story_views
  /\ view_queries' = v.view_queries
  /\ viewed_story_ids' = v.viewed_story_ids
  /\ crashed' = v.crashed

\* Variant that leaves has_query_ as it was.
increment_story_views_unmarked(v, owner_dialog_id) ==
  LET story_views == v.pending_story_views[owner_dialog_id]
      rest == {s \in story_views.story_ids :
                 Cardinality({t \in story_views.story_ids : t < s}) >= MAX_VIEWED_STORIES}
  IN IF story_views.has_query \/ story_views.story_ids = {}
     THEN Crash(v)
     ELSE [v EXCEPT !.pending_story_views[owner_dialog_id] =
                      [story_ids |-> rest, has_query |-> story_views.has_query],
                    !.view_queries[owner_dialog_id] = @ + 1,
                    !.viewed_story_ids[owner_dialog_id] = story_views.story_ids \ rest]

\* the request takes up to MAX_VIEWED_STORIES of the pending identifiers
increment_story_views(v, owner_dialog_id) ==
  LET story_views == v.pending_story_views[owner_dialog_id]
      rest == {s \in story_views.story_ids :
                 Cardinality({t \in story_views.story_ids : t < s}) >= MAX_VIEWED_STORIES}
  IN IF story_views.has_query \/ story_views.story_ids = {}
     THEN Crash(v)            \* CHECK(!story_views.has_query_), CHECK(!viewed_story_ids.empty())
     ELSE [v EXCEPT !.pending_story_views[owner_dialog_id] =
                      [story_ids |-> rest, has_query |-> TRUE],
                    !.view_queries[owner_dialog_id] = @ + 1,
                    !.viewed_story_ids[owner_dialog_id] = story_views.story_ids \ rest]

\* Variant that forgets the identifiers that were enqueued while the request was in flight.
on_increment_story_views_dropped(v, owner_dialog_id) ==
  LET story_views == MapGet(v.pending_story_views, owner_dialog_id, NewPendingStoryViews)
  IN IF ~story_views.has_query THEN Crash(v)
     ELSE [v EXCEPT !.pending_story_views = MapErase(@, owner_dialog_id)]

on_increment_story_views(v, owner_dialog_id) ==
  LET story_views == MapGet(v.pending_story_views, owner_dialog_id, NewPendingStoryViews)
  IN IF ~story_views.has_query THEN Crash(v)               \* CHECK(story_views.has_query_)
     ELSE IF story_views.story_ids = {}
     THEN [v EXCEPT !.pending_story_views = MapErase(@, owner_dialog_id)]
     ELSE increment_story_views(
            [v EXCEPT !.pending_story_views =
               MapSet(@, owner_dialog_id, [story_views EXCEPT !.has_query = FALSE])],
            owner_dialog_id)

-----------------------------------------------------------------------------
(* What the database returns to the reads of one handler *)

NoStoryValue == [kind |-> "error", date |-> 0, expire_date |-> 0, is_pinned |-> FALSE, has_content |-> FALSE]
NoActiveValue == [kind |-> "error", max_read_story_id |-> 0, story_infos |-> <<>>]
NoDb == [story |-> NoStoryValue, active |-> NoActiveValue]

DbStoryValues ==
  {NoStoryValue,
   [kind |-> "empty", date |-> 0, expire_date |-> 0, is_pinned |-> FALSE, has_content |-> FALSE],
   [kind |-> "story", date |-> 1, expire_date |-> 2, is_pinned |-> TRUE, has_content |-> TRUE],
   [kind |-> "story", date |-> 1, expire_date |-> 3, is_pinned |-> FALSE, has_content |-> TRUE]}

DbStoryInfos == [story_id : StoryIds, date : {1}, expire_date : {2, 3}]

DbActiveValues ==
  {NoActiveValue, [kind |-> "empty", max_read_story_id |-> 0, story_infos |-> <<>>]}
  \cup {[kind |-> "value", max_read_story_id |-> r, story_infos |-> <<i>>] :
          r \in {0, 2}, i \in DbStoryInfos}
  \cup {[kind |-> "value", max_read_story_id |-> 1,
         story_infos |-> <<[story_id |-> 1, date |-> 1, expire_date |-> 3],
                          [story_id |-> 2, date |-> 1, expire_date |-> 3]>>]}

\* the reads a handler can make: none without a message database
Dbs(story_values, active_values) ==
  IF use_message_database
  THEN [story : story_values, active : active_values]
  ELSE {NoDb}

-----------------------------------------------------------------------------
(* Initial state: after the constructor and start_up *)

NoUser == [is_contact |-> FALSE, stories_hidden |-> FALSE, is_premium |-> FALSE]

\* a list state that the constructor can find saved in the database
SavedStoryList(total_count, has_more) ==
  [NewStoryList EXCEPT !.state = "saved",
                       !.server_total_count = Max(total_count, 0),
                       !.sent_total_count = Max(total_count, 0),
                       !.server_has_more = has_more,
                       !.database_has_more = TRUE]

\* the lists after the constructor has read the list states saved in the database
SavedStoryLists == [StoryListIds -> {NewStoryList} \cup {SavedStoryList(c, h) : c \in {0, 2}, h \in BOOLEAN}]

NewStoryLists == [l \in StoryListIds |-> NewStoryList]

\* logs: the binlogs the last run can have left, as sequences of log events
InitStore(databases, lists, is_recording, logs) ==
  /\ now = 1
  /\ recording = is_recording
  /\ last_call = NoCall
  /\ sent_updates = <<>>
  /\ story_db_queries = <<>>
  /\ set_timeouts = <<>>
  /\ active_stories_db_queries = <<>>
  /\ load_requests = [l \in StoryListIds |-> [database |-> 0, server |-> 0]]
  /\ load_promise_results = <<>>
  /\ cached_story_viewers = EmptyMap
  /\ story_viewers_queries = {}
  /\ being_edited_stories = EmptyMap
  /\ edit_generations = EmptyMap
  /\ edit_story_count = 0
  /\ being_uploaded_edits = {}
  /\ edit_queries = {}
  /\ finished_edits = {}
  /\ promise_results = EmptyMap
  /\ binlog_events \in logs
  /\ binlog = {binlog_events[i].id : i \in {k \in DOMAIN binlog_events :
                                               binlog_events[k].type = "EditStory"}}
  /\ old_binlog = {binlog_events[i].id : i \in {k \in DOMAIN binlog_events :
                      binlog_events[k].type \notin {"EditStory", "SendStory"}}}
  /\ load_expiring_stories_log_event_ids = EmptyMap
  /\ opened_owned_stories = EmptyMap
  /\ interaction_info_update_timeout = FALSE
  /\ views_queries = <<>>
  /\ delete_queries = <<>>
  /\ use_message_database \in databases
  /\ story_lists \in lists
  /\ users = [o \in Owners |-> NoUser]
  /\ stories = EmptyMap
  /\ max_story_global_id = 0
  /\ stories_by_global_id = EmptyMap
  /\ active_stories = EmptyMap
  /\ max_read_story_ids = EmptyMap
  /\ failed_to_load_active_stories = {}
  /\ deleted_story_full_ids = {}
  /\ inaccessible_story_full_ids = {}
  /\ failed_to_load_story_full_ids = {}
  /\ read_queries = [o \in Owners |-> <<>>]
  /\ read_sent = [o \in Owners |-> <<>>]
  /\ read_log_event_ids = [o \in Owners |-> <<>>]
  /\ send_story_count = 0
  /\ yet_unsent_stories = {}
  /\ being_uploaded_files = {}
  /\ ready_to_send_stories = {}
  /\ was_reuploaded = {}
  /\ send_queries = {}
  /\ sent_requests = <<>>
  /\ finished_sends = {}
  /\ send_log_event_ids = EmptyMap
  /\ send_binlog = {binlog_events[i].id : i \in {k \in DOMAIN binlog_events :
                                                    binlog_events[k].type = "SendStory"}}
  /\ send_log_event_count = Len(binlog_events)
  /\ close_flag = FALSE
  /\ crashed = FALSE

\* no story was opened
NoPendingViews ==
  /\ pending_story_views = EmptyMap
  /\ view_queries = [o \in Owners |-> 0]
  /\ viewed_story_ids = [o \in Owners |-> {}]

\* the options say that archive_all_stories is synchronized: start_up sends nothing
Synchronized ==
  /\ archive_all_stories = FALSE
  /\ need_synchronize_archive_all_stories = FALSE
  /\ has_active_synchronize_archive_all_stories_query = FALSE
  /\ toggle_queries = <<>>
  /\ toggle_sent = <<>>
  /\ option_changes = 0

InitBinlog(databases, lists, is_recording, logs) ==
  /\ InitStore(databases, lists, is_recording, logs)
  /\ NoPendingViews
  /\ Synchronized

\* the binlog is empty at start
InitRecording(databases, lists, is_recording) ==
  InitBinlog(databases, lists, is_recording, {<<>>})

\* no history is kept
InitWith(databases, lists) == InitRecording(databases, lists, FALSE)

-----------------------------------------------------------------------------
(* Actions: one per handler *)

editVars == <<being_edited_stories, edit_generations, edit_story_count, being_uploaded_edits,
              edit_queries, finished_edits, promise_results, binlog, delete_queries>>
replayVars == <<binlog_events, old_binlog, load_expiring_stories_log_event_ids>>
archiveVars == <<archive_all_stories, need_synchronize_archive_all_stories,
                 has_active_synchronize_archive_all_stories_query, toggle_queries, toggle_sent,
                 option_changes>>
historyVars == <<recording, last_call, sent_updates, story_db_queries, set_timeouts,
                 active_stories_db_queries, load_requests, load_promise_results>>
pollVars == <<opened_owned_stories, interaction_info_update_timeout, views_queries>>
viewersVars == <<cached_story_viewers, story_viewers_queries>>
managerVars == <<stories, max_story_global_id, stories_by_global_id, active_stories,
                 max_read_story_ids, failed_to_load_active_stories, story_lists,
                 deleted_story_full_ids, inaccessible_story_full_ids,
                 failed_to_load_story_full_ids, editVars, replayVars, viewersVars, historyVars>>
storeVars == <<managerVars, pollVars>>
storyVars == <<storeVars, crashed>>
readVars == <<read_queries, read_sent, read_log_event_ids>>
viewVars == <<pending_story_views, view_queries, viewed_story_ids>>
sendVars == <<send_story_count, yet_unsent_stories, being_uploaded_files, was_reuploaded,
              ready_to_send_stories, send_queries, sent_requests, finished_sends,
              send_log_event_ids, send_binlog, send_log_event_count>>

Running == ~crashed

\* the clock advances
Tick ==
  /\ Running
  /\ now < MaxTime
  /\ now' = now + 1
  /\ UNCHANGED <<use_message_database, users, storyVars, readVars, viewVars, sendVars, close_flag, archiveVars>>

\* updateStory, or a story of another response: on_get_story
OnGetStory(owner_dialog_id, story_item, db) ==
  /\ Running
  /\ story_item.kind # "skipped"
  /\ CommitBounded([on_get_story_item(Cur, owner_dialog_id, story_item, db)
                     EXCEPT !.call = Call("on_get_story", owner_dialog_id, story_item.id, story_item)])
  /\ UNCHANGED <<users, readVars, viewVars, sendVars, close_flag, archiveVars>>

\* a userStories bundle of an update or of a getUserStories response: on_get_user_stories
OnGetUserStories(owner_dialog_id, user_stories, db) ==
  /\ Running
  /\ CommitBounded([on_get_user_stories(Cur, owner_dialog_id, user_stories, db)
                     EXCEPT !.call = Call("on_get_user_stories", owner_dialog_id, 0, user_stories)])
  /\ UNCHANGED <<users, readVars, viewVars, sendVars, close_flag, archiveVars>>

\* the expiry timer of a story fires: a story that was registered, and can be gone
OnStoryExpireTimeout(story_global_id, db) ==
  /\ Running
  /\ ~close_flag
  /\ story_global_id \in 1..max_story_global_id
  /\ CommitBounded([on_story_expire_timeout(Cur, story_global_id, db)
                     EXCEPT !.call = Call("on_story_expire_timeout",
                                          MapGet(stories_by_global_id, story_global_id, <<0, 0>>)[1],
                                          MapGet(stories_by_global_id, story_global_id, <<0, 0>>)[2],
                                          story_global_id)])
  /\ UNCHANGED <<users, readVars, viewVars, sendVars, close_flag, archiveVars>>

\* the timer of the viewers of a story of the user fires; the call is recorded with the
\* viewers that were cached for the story when it fired
OnStoryCanGetViewersTimeout(story_global_id) ==
  /\ Running
  /\ ~close_flag
  /\ story_global_id \in 1..max_story_global_id
  /\ Commit([on_story_can_get_viewers_timeout(Cur, story_global_id)
               EXCEPT !.call = Call("on_story_can_get_viewers_timeout",
                                    MapGet(stories_by_global_id, story_global_id, <<0, 0>>)[1],
                                    MapGet(stories_by_global_id, story_global_id, <<0, 0>>)[2],
                                    [story_global_id |-> story_global_id,
                                     cached_viewers |->
                                       MapGet(cached_story_viewers,
                                              MapGet(stories_by_global_id, story_global_id, <<0, 0>>),
                                              FALSE)])])
  /\ UNCHANGED <<users, readVars, viewVars, sendVars, close_flag, archiveVars>>

\* getStoryViewers
GetStoryViewers(story_id, has_views, from_cache) ==
  /\ Running
  /\ story_id \notin story_viewers_queries
  /\ Commit([get_story_viewers(Cur, story_id, has_views, from_cache)
               EXCEPT !.call = Call("get_story_viewers", MyId, story_id, has_views)])
  /\ UNCHANGED <<users, readVars, viewVars, sendVars, close_flag, archiveVars>>

\* the server answers GetStoryViewsListQuery
OnGetStoryViewers(story_id, is_error, is_changed) ==
  /\ Running
  /\ story_id \in story_viewers_queries
  /\ Commit([on_get_story_viewers([Cur EXCEPT !.story_viewers_queries = @ \ {story_id}],
                                  story_id, is_error, is_changed)
               EXCEPT !.call = Call("on_get_story_viewers", MyId, story_id, is_changed)])
  /\ UNCHANGED <<users, readVars, viewVars, sendVars, close_flag, archiveVars>>

\* updateReadStories: on_update_read_stories
OnUpdateReadStories(owner_dialog_id, max_read_story_id, db) ==
  /\ Running
  /\ CommitBounded([on_update_read_stories(Cur, owner_dialog_id, max_read_story_id, db.active)
                     EXCEPT !.call = Call("on_update_read_stories", owner_dialog_id,
                                          max_read_story_id, 0)])
  /\ UNCHANGED <<users, readVars, viewVars, sendVars, close_flag, archiveVars>>

\* ContactsManager changed a user and calls on_dialog_active_stories_order_updated
OnUserUpdated(owner_dialog_id, user) ==
  /\ Running
  /\ users[owner_dialog_id] # user
  /\ users' = [users EXCEPT ![owner_dialog_id] = user]
  /\ Commit(on_dialog_active_stories_order_updated(
              [Cur EXCEPT !.users = users'], owner_dialog_id))
  /\ UNCHANGED <<readVars, viewVars, sendVars, close_flag, archiveVars>>

\* binlog_add gives the log event an identifier that no other event has: here the owner
\* and the number of the request of the owner
save_read_stories_on_server_log_event(owner_dialog_id, num) == 100 * owner_dialog_id + num

\* open_story
OpenStory(owner_dialog_id, story_id, db) ==
  LET story_full_id == <<owner_dialog_id, story_id>>
      opened == open_story_owned(Cur, story_full_id)
      is_active == is_active_story(Cur, story_full_id)
      need_increment_story_views ==
        is_server(story_id) /\ ~is_active /\ stories[story_full_id].is_pinned
      need_read_story == is_server(story_id) /\ is_active
      viewed(v) ==
        IF ~v.pending_story_views[owner_dialog_id].has_query
        THEN increment_story_views(v, owner_dialog_id)
        ELSE v
      log_event_id ==                                      \* read_stories_on_server(.., 0)
        IF use_message_database
        THEN save_read_stories_on_server_log_event(owner_dialog_id,
                                                   Len(read_sent[owner_dialog_id]) + 1)
        ELSE 0
      read(t) ==
        IF t.result                                        \* read_stories_on_server
        THEN /\ Len(read_sent[owner_dialog_id]) < MaxReadSent
             /\ CommitBounded([t EXCEPT !.old_binlog = @ \cup ({log_event_id} \ {0})])
             /\ read_queries' = [read_queries EXCEPT ![owner_dialog_id] = Append(@, story_id)]
             /\ read_sent' = [read_sent EXCEPT ![owner_dialog_id] = Append(@, story_id)]
             /\ read_log_event_ids' =
                  [read_log_event_ids EXCEPT ![owner_dialog_id] = Append(@, log_event_id)]
        ELSE CommitBounded(t) /\ UNCHANGED readVars
  IN /\ Running
     /\ story_id > 0                                       \* story_id.is_valid()
     /\ story_full_id \in DOMAIN stories
     /\ stories[story_full_id].has_content
     /\ MapGet(opened.opened_owned_stories, story_full_id, 0) <= MaxOpens
     /\ Len(opened.views_queries) <= MaxViewsQueries
     /\ IF need_increment_story_views
        THEN /\ CommitViews(viewed(
                  [ViewState EXCEPT !.pending_story_views =
                     MapSet(@, owner_dialog_id,
                            [MapGet(@, owner_dialog_id, NewPendingStoryViews)
                               EXCEPT !.story_ids = @ \cup {story_id}])]))
             /\ opened_owned_stories' = opened.opened_owned_stories
             /\ interaction_info_update_timeout' = opened.interaction_info_update_timeout
             /\ views_queries' = opened.views_queries
             /\ UNCHANGED <<now, use_message_database, managerVars, readVars>>
        ELSE /\ read(IF need_read_story
                     THEN on_update_read_stories(opened, owner_dialog_id, story_id, db.active)
                     ELSE opened)
             /\ UNCHANGED viewVars
     /\ UNCHANGED <<users, sendVars, close_flag, archiveVars>>

\* closeStory;  the owner is known and can be read
CloseStory(owner_dialog_id, story_id) ==
  /\ Running
  /\ story_id > 0                                          \* story_id.is_valid()
  /\ Commit(close_story(Cur, owner_dialog_id, story_id))
  /\ UNCHANGED <<users, readVars, viewVars, sendVars, close_flag, archiveVars>>

\* interaction_info_update_timeout_ expires: update_interaction_info_static
OnInteractionInfoUpdateTimeout ==
  /\ Running
  /\ interaction_info_update_timeout
  /\ LET m == [Cur EXCEPT !.interaction_info_update_timeout = FALSE,
                          !.call = Call("update_interaction_info", MyId, 0, 0)]
         t == IF close_flag THEN m ELSE update_interaction_info(m)
     IN Len(t.views_queries) <= MaxViewsQueries /\ Commit(t)
  /\ UNCHANGED <<users, readVars, viewVars, sendVars, close_flag, archiveVars>>

\* GetStoriesViewsQuery::on_result: on_get_story_views;  changed: the stories whose
\* interaction info differs from the known one
OnGetStoryViews(i, changed) ==
  /\ Running
  /\ i \in 1..Len(views_queries)
  /\ changed \subseteq views_queries[i]
  /\ Commit([on_get_story_views(
                [Cur EXCEPT !.views_queries = SubSeq(@, 1, i - 1) \o SubSeq(@, i + 1, Len(@))],
                views_queries[i], changed)
              EXCEPT !.call = Call("on_get_story_views", MyId, 0, views_queries[i])])
  /\ UNCHANGED <<users, readVars, viewVars, sendVars, close_flag, archiveVars>>

\* GetStoriesViewsQuery::on_error
OnGetStoryViewsError(i) ==
  /\ Running
  /\ i \in 1..Len(views_queries)
  /\ Commit([Cur EXCEPT !.views_queries = SubSeq(@, 1, i - 1) \o SubSeq(@, i + 1, Len(@)),
                        !.call = Call("GetStoriesViewsQuery::on_error", MyId, 0, views_queries[i])])
  /\ UNCHANGED <<users, readVars, viewVars, sendVars, close_flag, archiveVars>>

\* a ReadStoriesQuery finishes, with a result or an error: the promise made by
\* get_erase_log_event_promise erases the log event of the request unless the client is
\* closing; a request without a log event has the identifier 0, which no event has
OnReadStoriesResult(owner_dialog_id, i) ==
  /\ Running
  /\ i \in 1..Len(read_queries[owner_dialog_id])
  /\ read_queries' = [read_queries EXCEPT ![owner_dialog_id] =
                        SubSeq(@, 1, i - 1) \o SubSeq(@, i + 1, Len(@))]
  /\ read_log_event_ids' = [read_log_event_ids EXCEPT ![owner_dialog_id] =
                              SubSeq(@, 1, i - 1) \o SubSeq(@, i + 1, Len(@))]
  /\ old_binlog' = IF close_flag THEN old_binlog
                   ELSE old_binlog \ {read_log_event_ids[owner_dialog_id][i]}
  /\ UNCHANGED <<now, use_message_database, users, stories, max_story_global_id,
                 stories_by_global_id, active_stories, max_read_story_ids,
                 failed_to_load_active_stories, story_lists, deleted_story_full_ids,
                 inaccessible_story_full_ids, failed_to_load_story_full_ids, editVars,
                 binlog_events, load_expiring_stories_log_event_ids, viewersVars, historyVars,
                 pollVars, crashed, read_sent, viewVars, sendVars, close_flag, archiveVars>>

\* an IncrementStoryViewsQuery finishes: on_increment_story_views
OnIncrementStoryViews(owner_dialog_id) ==
  /\ Running
  /\ view_queries[owner_dialog_id] > 0
  /\ CommitViews(
       IF close_flag
       THEN [ViewState EXCEPT !.view_queries[owner_dialog_id] = @ - 1]
       ELSE on_increment_story_views(
              [ViewState EXCEPT !.view_queries[owner_dialog_id] = @ - 1], owner_dialog_id))
  /\ UNCHANGED <<now, use_message_database, users, storeVars, readVars, sendVars, close_flag, archiveVars>>

\* the client is closing
Close ==
  /\ Running
  /\ ~close_flag
  /\ close_flag' = TRUE
  /\ UNCHANGED <<now, use_message_database, users, storyVars, readVars, viewVars, sendVars,
                 archiveVars>>

\* loadActiveStories
LoadActiveStoriesUpTo(story_list_id, resume, max_queries) ==
  /\ Running
  /\ story_lists[story_list_id].load_list_from_database_queries < max_queries
  /\ story_lists[story_list_id].load_list_from_server_queries < max_queries
  /\ \E t \in {load_active_stories(Cur, story_list_id, resume)} :
       Commit([t EXCEPT !.call = Call("load_active_stories", 0, story_list_id, t.result)])
  /\ UNCHANGED <<users, readVars, viewVars, sendVars, close_flag, archiveVars>>

LoadActiveStories(story_list_id, resume) ==
  LoadActiveStoriesUpTo(story_list_id, resume, MaxLoadQueries)

\* reload_active_stories
ReloadActiveStoriesUpTo(max_queries) ==
  /\ Running
  /\ \A l \in StoryListIds : story_lists[l].load_list_from_server_queries < max_queries
  /\ Commit(reload_active_stories(Cur))
  /\ UNCHANGED <<users, readVars, viewVars, sendVars, close_flag, archiveVars>>

ReloadActiveStories == ReloadActiveStoriesUpTo(MaxLoadQueries)

\* the database answers get_active_story_list
OnLoadActiveStoriesFromDatabase(story_list_id, result, resume) ==
  /\ Running
  /\ load_requests[story_list_id].database > 0
  /\ CommitBounded(on_load_active_stories_from_database(
                     [Cur EXCEPT !.load_requests[story_list_id].database = @ - 1],
                     story_list_id, result, resume))
  /\ UNCHANGED <<users, readVars, viewVars, sendVars, close_flag, archiveVars>>

\* the server answers GetAllStoriesQuery
OnLoadActiveStoriesFromServer(story_list_id, result, db) ==
  /\ Running
  /\ load_requests[story_list_id].server > 0
  /\ CommitBounded([on_load_active_stories_from_server(
                      [Cur EXCEPT !.load_requests[story_list_id].server = @ - 1],
                      story_list_id, result, db)
                     EXCEPT !.call = Call("on_load_active_stories_from_server", 0, story_list_id, result)])
  /\ UNCHANGED <<users, readVars, viewVars, sendVars, close_flag, archiveVars>>

-----------------------------------------------------------------------------
(* Sending of new stories.  The file of the story with send_story_num n is  *)
(* the file n: the stories being sent have different files.                 *)

SendState ==
  [send_story_count |-> send_story_count, yet_unsent_stories |-> yet_unsent_stories,
   being_uploaded_files |-> being_uploaded_files,
   was_reuploaded |-> was_reuploaded, ready_to_send_stories |-> ready_to_send_stories,
   send_queries |-> send_queries, sent_requests |-> sent_requests,
   finished_sends |-> finished_sends, send_log_event_ids |-> send_log_event_ids,
   send_binlog |-> send_binlog, send_log_event_count |-> send_log_event_count,
   call |-> NoCall, crashed |-> crashed]

CommitSendVars(t) ==
  /\ send_story_count' = t.send_story_count
  /\ yet_unsent_stories' = t.yet_unsent_stories
  /\ being_uploaded_files' = t.being_uploaded_files
  /\ was_reuploaded' = t.was_reuploaded
  /\ ready_to_send_stories' = t.ready_to_send_stories
  /\ send_queries' = t.send_queries
  /\ sent_requests' = t.sent_requests
  /\ finished_sends' = t.finished_sends
  /\ send_log_event_ids' = t.send_log_event_ids
  /\ send_binlog' = t.send_binlog
  /\ send_log_event_count' = t.send_log_event_count

CommitSend(t) ==
  /\ CommitSendVars(t)
  /\ last_call' = IF recording THEN t.call ELSE NoCall
  /\ sent_updates' = <<>>
  /\ story_db_queries' = <<>>
  /\ set_timeouts' = <<>>
  /\ active_stories_db_queries' = <<>>
  /\ load_promise_results' = <<>>
  /\ UNCHANGED load_requests
  /\ crashed' = t.crashed
  /\ UNCHANGED recording

do_send_story(s, send_story_num) ==
  IF send_story_num \in s.being_uploaded_files THEN Crash(s)       \* CHECK(is_inserted)
  ELSE [s EXCEPT !.being_uploaded_files = @ \cup {send_story_num}]

try_send_story_any(s) ==
  IF s.yet_unsent_stories = {} THEN s
  ELSE LET ready == s.yet_unsent_stories \cap s.ready_to_send_stories
       IN IF ready = {} THEN s
          ELSE LET send_story_num == CHOOSE n \in ready : \A k \in ready : k <= n
               IN [s EXCEPT !.ready_to_send_stories = @ \ {send_story_num},
                            !.send_queries = @ \cup {send_story_num},
                            !.sent_requests = Append(@, send_story_num)]

try_send_story(s) ==
  IF s.yet_unsent_stories = {} THEN s
  ELSE LET send_story_num == MinOf(s.yet_unsent_stories)           \* *yet_unsent_stories_.begin()
       IN IF send_story_num \notin s.ready_to_send_stories THEN s
          ELSE [s EXCEPT !.ready_to_send_stories = @ \ {send_story_num},
                         !.send_queries = @ \cup {send_story_num},
                         !.sent_requests = Append(@, send_story_num)]

delete_pending_story(s, send_story_num) ==      \* the branch of a new story (not an edit)
  LET s1 == try_send_story([s EXCEPT !.yet_unsent_stories = @ \ {send_story_num},
                                     !.finished_sends = @ \cup {send_story_num}])
      log_event_id == MapGet(s1.send_log_event_ids, send_story_num, 0)
  IN [s1 EXCEPT !.send_binlog = IF log_event_id # 0 THEN @ \ {log_event_id} ELSE @,   \* binlog_erase
                !.send_log_event_ids = MapErase(@, send_story_num)]      \* the PendingStory is freed

\* the log event identifier of a new SendStory log event; 0 without a message database
save_send_story_log_event(s) ==
  IF ~use_message_database THEN s
  ELSE [s EXCEPT !.send_log_event_count = @ + 1,
                 !.send_binlog = @ \cup {s.send_log_event_count + 1}]            \* binlog_add

is_allowed_active_period_any(active_period, is_premium, is_test_dc) ==
  \/ active_period = 86400
  \/ is_test_dc /\ active_period \in {60, 300}
  \/ active_period \in {6 * 3600, 12 * 3600, 2 * 86400, 3 * 86400, 7 * 86400}

\* the check of active_period in send_story
is_allowed_active_period(active_period, is_premium, is_test_dc) ==
  IF active_period # 86400 /\ ~(is_test_dc /\ (active_period = 60 \/ active_period = 300))
  THEN ~(~is_premium
         \/ active_period \notin {6 * 3600, 12 * 3600, 2 * 86400, 3 * 86400, 7 * 86400})
  ELSE TRUE

\* the content, the caption and the privacy rules are valid;  s.call.arg is the error code
send_story(s, active_period, is_premium, is_test_dc) ==
  LET call(code) == Call("send_story", MyId, active_period,
                         [is_premium |-> is_premium, is_test_dc |-> is_test_dc, code |-> code])
  IN IF ~is_allowed_active_period(active_period, is_premium, is_test_dc)
     THEN [s EXCEPT !.call = call(400)]     \* "Invalid story active period specified"
     ELSE LET send_story_num == s.send_story_count + 1
              s1 == save_send_story_log_event(s)
              log_event_id == IF use_message_database THEN s1.send_log_event_count ELSE 0
          IN do_send_story(
               [s1 EXCEPT !.send_story_count = send_story_num,
                          !.send_log_event_ids = MapSet(@, send_story_num, log_event_id),
                          !.yet_unsent_stories = @ \cup {send_story_num},
                          !.call = call(0)],
               send_story_num)

sendFrame == <<now, use_message_database, users, stories, max_story_global_id,
               stories_by_global_id, active_stories, max_read_story_ids,
               failed_to_load_active_stories, story_lists, deleted_story_full_ids,
               inaccessible_story_full_ids, failed_to_load_story_full_ids, editVars,
               replayVars, viewersVars, pollVars, readVars, viewVars, close_flag, archiveVars>>

\* sendStory
SendStory(active_period, is_premium, is_test_dc) ==
  /\ Running
  /\ LET t == send_story(SendState, active_period, is_premium, is_test_dc)
     IN t.send_story_count <= MaxSends /\ CommitSend(t)
  /\ UNCHANGED sendFrame

\* UploadMediaCallback::on_upload_ok: on_upload_story
\* forced: input_file == nullptr and the file has a remote location;  is_web: that location is a web one
OnUploadStory(send_story_num, forced, is_web) ==
  /\ Running
  /\ send_story_num \in being_uploaded_files
  /\ LET s0 == [SendState EXCEPT !.call = Call("on_upload_story", MyId, send_story_num, forced)]
         s == [s0 EXCEPT !.being_uploaded_files = @ \ {send_story_num}]
     IN CommitSend(
          IF close_flag THEN s0
          ELSE IF forced THEN
            IF is_web \/ send_story_num \in s.was_reuploaded
            THEN delete_pending_story(s, send_story_num)
            ELSE do_send_story([s EXCEPT !.was_reuploaded = @ \cup {send_story_num}], send_story_num)
          ELSE try_send_story([s EXCEPT !.ready_to_send_stories = @ \cup {send_story_num}]))
  /\ UNCHANGED sendFrame

\* Variant that fails the upload also when the client is closing.
OnUploadStoryErrorAlways(send_story_num) ==
  /\ Running
  /\ send_story_num \in being_uploaded_files
  /\ CommitSend(delete_pending_story(
       [SendState EXCEPT !.being_uploaded_files = @ \ {send_story_num},
                         !.call = Call("on_upload_story_error", MyId, send_story_num, 0)],
       send_story_num))
  /\ UNCHANGED sendFrame

\* UploadMediaCallback::on_upload_error: on_upload_story_error
OnUploadStoryError(send_story_num) ==
  /\ Running
  /\ send_story_num \in being_uploaded_files
  /\ LET s0 == [SendState EXCEPT !.call = Call("on_upload_story_error", MyId, send_story_num, 0)]
     IN CommitSend(
          IF close_flag THEN s0
          ELSE delete_pending_story(
                 [s0 EXCEPT !.being_uploaded_files = @ \ {send_story_num}], send_story_num))
  /\ UNCHANGED sendFrame

\* SendStoryQuery::on_result
OnSendStoryResult(send_story_num) ==
  /\ Running
  /\ send_story_num \in send_queries
  /\ CommitSend(delete_pending_story(
       [SendState EXCEPT !.send_queries = @ \ {send_story_num},
                         !.call = Call("SendStoryQuery::on_result", MyId, send_story_num, 0)],
       send_story_num))
  /\ UNCHANGED sendFrame

\* SendStoryQuery::on_error;  bad_parts: the error names missing file parts
OnSendStoryError(send_story_num, bad_parts) ==
  /\ Running
  /\ send_story_num \in send_queries
  /\ bad_parts => Len(sent_requests) < MaxSendRequests
  /\ LET s == [SendState EXCEPT !.send_queries = @ \ {send_story_num},
                  !.call = Call("SendStoryQuery::on_error", MyId, send_story_num, bad_parts)]
     IN CommitSend(
          IF close_flag /\ use_message_database THEN s
          ELSE IF bad_parts THEN do_send_story(s, send_story_num)  \* on_send_story_file_parts_missing
          ELSE delete_pending_story(s, send_story_num))
  /\ UNCHANGED sendFrame


-----------------------------------------------------------------------------
(* Replay of the binlog at start *)

\* A log event as on_binlog_events parses it.  content: "none" for content_ == nullptr,
\* "photo" or "unsupported";  story_id: the story, or max_story_id_ of ReadStoriesOnServer;
\* resolved: Dependencies::resolve_force succeeds (SendStory, EditStory), or
\* MessagesManager::have_dialog_force finds the owner (the other events)
LogEvent(type, owner_dialog_id, story_id, content, edit_caption, caption, resolved) ==
  [type |-> type, id |-> 0, owner_dialog_id |-> owner_dialog_id, story_id |-> story_id,
   content |-> content, edit_caption |-> edit_caption, caption |-> caption,
   resolved |-> resolved]

\* the manager, the sending of new stories, and the ReadStoriesQuery requests issued
ReplayState == [m |-> Cur, s |-> SendState, reads |-> <<>>]

binlog_erase(r, event) ==
  [r EXCEPT !.m.binlog = @ \ {event.id},
            !.m.old_binlog = @ \ {event.id},
            !.s.send_binlog = @ \ {event.id}]

\* called by on_binlog_events, with the log event of the load
load_dialog_expiring_stories(r, owner_dialog_id, event) ==
  IF owner_dialog_id \in DOMAIN r.m.load_expiring_stories_log_event_ids
  THEN binlog_erase(r, event)
  ELSE [r EXCEPT !.m.load_expiring_stories_log_event_ids = MapSet(@, owner_dialog_id, event.id)]

on_load_dialog_expiring_stories(m, owner_dialog_id) ==
  IF owner_dialog_id \notin DOMAIN m.load_expiring_stories_log_event_ids THEN m
  ELSE [m EXCEPT !.load_expiring_stories_log_event_ids = MapErase(@, owner_dialog_id),
                 !.old_binlog = @ \ {m.load_expiring_stories_log_event_ids[owner_dialog_id]}]  \* no event has the identifier 0

\* Variant that sends again a story whose content is not supported.
on_send_story_log_event_unchecked(r, event, have_old_message_database) ==
  LET send_story_num == r.s.send_story_count + 1
  IN IF ~have_old_message_database THEN binlog_erase(r, event)
     ELSE IF ~event.resolved THEN binlog_erase(r, event)
     ELSE [r EXCEPT !.s = do_send_story(
                      [@ EXCEPT !.send_story_count = send_story_num,
                                !.send_log_event_ids = MapSet(@, send_story_num, event.id),
                                !.yet_unsent_stories = @ \cup {send_story_num}],
                      send_story_num)]

\* case LogEvent::HandlerType::SendStory
on_send_story_log_event(r, event, have_old_message_database) ==
  LET send_story_num == r.s.send_story_count + 1
  IN IF ~have_old_message_database THEN binlog_erase(r, event)
     ELSE IF event.content = "none"
     THEN [r EXCEPT !.m = Crash(@)]                    \* CHECK(content_ != nullptr)
     ELSE IF event.content = "unsupported" THEN binlog_erase(r, event)
     ELSE IF ~event.resolved THEN binlog_erase(r, event)
     ELSE [r EXCEPT !.s = do_send_story(
                      [@ EXCEPT !.send_story_count = send_story_num,
                                !.send_log_event_ids = MapSet(@, send_story_num, event.id),
                                !.yet_unsent_stories = @ \cup {send_story_num}],
                      send_story_num)]

\* case LogEvent::HandlerType::EditStory, after get_story_force;  r holds the loaded stories
on_edit_story_log_event_loaded(r, event) ==
  LET story_full_id == <<event.owner_dialog_id, event.story_id>>
      edit_generation == MapGet(r.m.edit_generations, story_full_id, 0) + 1
      num == r.m.edit_story_count + 1
      edited_story ==
        [has_content |-> event.content # "none",
         caption |-> IF event.edit_caption THEN event.caption ELSE 0,
         edit_caption |-> event.edit_caption,
         promises |-> <<>>,
         log_event_id |-> event.id]
      pending_story == PendingStory(story_full_id, edit_generation, num, event.content # "none")
      sent(m2) == IF event.content = "none" THEN do_edit_story(m2, pending_story)
                  ELSE do_send_story_edit(m2, pending_story)
  IN IF r.m.crashed THEN r
     ELSE IF ~get_story(r.m, story_full_id) \/ ~r.m.stories[story_full_id].has_content
     THEN binlog_erase(r, event)
     ELSE IF event.content = "unsupported" THEN binlog_erase(r, event)
     ELSE IF ~event.resolved THEN binlog_erase(r, event)
     ELSE IF story_full_id \in DOMAIN r.m.being_edited_stories
     THEN binlog_erase(r, event)                       \* "Ignore outdated edit"
     ELSE [r EXCEPT !.m = sent([@ EXCEPT
                                 !.being_edited_stories = MapSet(@, story_full_id, edited_story),
                                 !.edit_generations = MapSet(@, story_full_id, edit_generation),
                                 !.edit_story_count = num]),
                    !.s.send_story_count = @ + 1]

\* case LogEvent::HandlerType::EditStory
on_edit_story_log_event(r, event, have_old_message_database, db) ==
  IF ~have_old_message_database THEN binlog_erase(r, event)
  ELSE IF ~is_server(event.story_id)
  THEN [r EXCEPT !.m = Crash(@)]                       \* CHECK(story_id_.is_server())
  ELSE CHOOSE result \in
         {on_edit_story_log_event_loaded([r EXCEPT !.m = m1], event) :
            m1 \in {get_story_force(r.m, <<event.owner_dialog_id, event.story_id>>, db.story)}} :
         TRUE

\* case LogEvent::HandlerType::DeleteStoryOnServer
on_delete_story_on_server_log_event(r, event, db) ==
  IF event.owner_dialog_id # MyId THEN binlog_erase(r, event)
  ELSE [r EXCEPT !.m = delete_story_on_server(@, <<event.owner_dialog_id, event.story_id>>, db)]

\* case LogEvent::HandlerType::ReadStoriesOnServer
on_read_stories_on_server_log_event(r, event, db) ==
  LET owner_dialog_id == event.owner_dialog_id
      read(m1) == IF owner_dialog_id \notin DOMAIN m1.active_stories
                  THEN [m1 EXCEPT !.max_read_story_ids =
                                    MapSet(@, owner_dialog_id, event.story_id)]
                  ELSE on_update_active_stories(
                         m1, owner_dialog_id, event.story_id,
                         m1.active_stories[owner_dialog_id].story_ids, FALSE)
  IN IF ~event.resolved THEN binlog_erase(r, event)
     ELSE [r EXCEPT !.m = CHOOSE m2 \in
                            {read(m1) : m1 \in {get_active_stories_force(
                                                   r.m, owner_dialog_id, db.active)}} : TRUE,
                    !.reads = Append(@, <<owner_dialog_id, event.story_id, event.id>>)]

\* case LogEvent::HandlerType::LoadDialogExpiringStories
on_load_dialog_expiring_stories_log_event(r, event) ==
  IF ~event.resolved THEN binlog_erase(r, event)
  ELSE load_dialog_expiring_stories(r, event.owner_dialog_id, event)

on_binlog_event(r, event, have_old_message_database, db) ==
  IF event.type = "DeleteStoryOnServer" THEN on_delete_story_on_server_log_event(r, event, db)
  ELSE IF event.type = "ReadStoriesOnServer" THEN on_read_stories_on_server_log_event(r, event, db)
  ELSE IF event.type = "LoadDialogExpiringStories"
  THEN on_load_dialog_expiring_stories_log_event(r, event)
  ELSE IF event.type = "SendStory"
  THEN on_send_story_log_event(r, event, have_old_message_database)
  ELSE IF event.type = "EditStory"
  THEN on_edit_story_log_event(r, event, have_old_message_database, db)
  ELSE [r EXCEPT !.m = Crash(@)]                       \* LOG(FATAL)

RECURSIVE on_binlog_events_loop(_, _, _, _)
on_binlog_events_loop(r, events, have_old_message_database, db) ==
  IF events = <<>> \/ r.m.crashed \/ r.s.crashed THEN r
  ELSE CHOOSE result \in
         {on_binlog_events_loop(r1, Tail(events), have_old_message_database, db) :
            r1 \in {on_binlog_event(r, Head(events), have_old_message_database, db)}} : TRUE

on_binlog_events(r, events, was_dialog_db_created, db) ==
  IF close_flag THEN r
  ELSE on_binlog_events_loop(r, events, use_message_database /\ ~was_dialog_db_created, db)

RECURSIVE read_all(_, _)
read_all(queries, reads) ==              \* the ReadStoriesQuery requests of read_stories_on_server
  IF reads = <<>> THEN queries
  ELSE read_all([queries EXCEPT ![Head(reads)[1]] = Append(@, Head(reads)[2])], Tail(reads))

RECURSIVE read_all_log_event_ids(_, _)
read_all_log_event_ids(log_event_ids, reads) ==     \* and the log events they erase
  IF reads = <<>> THEN log_event_ids
  ELSE read_all_log_event_ids(
         [log_event_ids EXCEPT ![Head(reads)[1]] = Append(@, Head(reads)[3])], Tail(reads))

\* Td hands the log events of the binlog to the manager at start
OnBinlogEvents(was_dialog_db_created, db) ==
  /\ Running
  /\ binlog_events # <<>>
  /\ \E r \in {on_binlog_events(ReplayState, binlog_events, was_dialog_db_created, db)} :
        /\ r.s.send_story_count <= MaxSends
        /\ r.m.edit_story_count <= MaxEdits
        /\ Len(r.m.delete_queries) <= MaxDeletes
        /\ \A o \in Owners : Len(read_all(read_sent, r.reads)[o]) <= MaxReadSent
        /\ CommitBounded([r.m EXCEPT !.binlog_events = <<>>,
                                     !.crashed = r.m.crashed \/ r.s.crashed,
                                     !.call = Call("on_binlog_events", 0, 0,
                                                   was_dialog_db_created)])
        /\ CommitSendVars(r.s)
        /\ read_queries' = read_all(read_queries, r.reads)
        /\ read_sent' = read_all(read_sent, r.reads)
        /\ read_log_event_ids' = read_all_log_event_ids(read_log_event_ids, r.reads)
  /\ UNCHANGED <<users, viewVars, close_flag, archiveVars>>

\* the answer to the request of load_dialog_expiring_stories has come
OnLoadDialogExpiringStories(owner_dialog_id) ==
  /\ Running
  /\ owner_dialog_id \in DOMAIN load_expiring_stories_log_event_ids
  /\ Commit([(IF close_flag THEN Cur ELSE on_load_dialog_expiring_stories(Cur, owner_dialog_id))
              EXCEPT !.call = Call("on_load_dialog_expiring_stories", owner_dialog_id, 0, 0)])
  /\ UNCHANGED <<users, readVars, viewVars, sendVars, close_flag, archiveVars>>

-----------------------------------------------------------------------------
(* Getting, editing and deleting of stories by the client *)

\* getStory with only_local
GetStory(owner_dialog_id, story_id, db) ==
  /\ Running
  /\ CommitBounded([get_story_local(Cur, <<owner_dialog_id, story_id>>, db)
                     EXCEPT !.call = Call("get_story", owner_dialog_id, story_id, db)])
  /\ UNCHANGED <<users, readVars, viewVars, sendVars, close_flag, archiveVars>>

\* editStory
EditStory(story_id, has_input_content, input_caption) ==
  /\ Running
  /\ edit_story_count < MaxEdits
  /\ has_input_content \/ input_caption # NoCaption
  /\ Commit([edit_story([Cur EXCEPT !.edit_story_count = @ + 1], story_id, has_input_content,
                         input_caption, edit_story_count + 1)
              EXCEPT !.call = Call("edit_story", MyId, story_id, input_caption)])
  /\ UNCHANGED <<users, readVars, viewVars, sendVars, close_flag, archiveVars>>

\* UploadMediaCallback::on_upload_ok for the file of an edit: on_upload_story
OnUploadEditedStory(pending_story, forced, is_web) ==
  LET uploaded(d) ==
        IF forced THEN
          IF is_web \/ pending_story.was_reuploaded
          THEN delete_pending_story_edit(d, pending_story, FALSE)
          ELSE do_send_story_edit(d, [pending_story EXCEPT !.was_reuploaded = TRUE])
        ELSE do_edit_story(d, pending_story)
  IN /\ Running
     /\ pending_story \in being_uploaded_edits
     /\ Commit([(IF close_flag THEN Cur
                  ELSE uploaded([Cur EXCEPT !.being_uploaded_edits = @ \ {pending_story}]))
                 EXCEPT !.call = Call("on_upload_story", MyId, pending_story.num, 0)])
     /\ UNCHANGED <<users, readVars, viewVars, sendVars, close_flag, archiveVars>>

\* UploadMediaCallback::on_upload_error for the file of an edit: on_upload_story_error
OnUploadEditedStoryError(pending_story) ==
  /\ Running
  /\ pending_story \in being_uploaded_edits
  /\ Commit([(IF close_flag THEN Cur              \* do not fail upload if closing
               ELSE delete_pending_story_edit(
                      [Cur EXCEPT !.being_uploaded_edits = @ \ {pending_story}],
                      pending_story, FALSE))
              EXCEPT !.call = Call("on_upload_story_error", MyId, pending_story.num, 0)])
  /\ UNCHANGED <<users, readVars, viewVars, sendVars, close_flag, archiveVars>>

\* EditStoryQuery::on_result: the updates go to UpdatesManager, whose promise calls
\* delete_pending_story later;  is_ok: UpdatesManager accepts the updates
OnEditStoryResult(query, is_ok) ==
  /\ Running
  /\ query \in edit_queries
  /\ Commit([Cur EXCEPT !.edit_queries = @ \ {query},
                         !.finished_edits = @ \cup {[pending_story |-> query.pending_story,
                                                     is_ok |-> is_ok]},
                         !.call = Call("on_result", MyId, query.pending_story.num, 0)])
  /\ UNCHANGED <<users, readVars, viewVars, sendVars, close_flag, archiveVars>>

\* the promise of EditStoryQuery::on_result: delete_pending_story
OnEditStoryFinished(finished) ==
  /\ Running
  /\ finished \in finished_edits
  /\ Commit([delete_pending_story_edit(
                [Cur EXCEPT !.finished_edits = @ \ {finished}], finished.pending_story,
                finished.is_ok)
              EXCEPT !.call = Call("delete_pending_story", MyId, finished.pending_story.num,
                               IF finished.is_ok THEN 1 ELSE 0)])
  /\ UNCHANGED <<users, readVars, viewVars, sendVars, close_flag, archiveVars>>

\* EditStoryQuery::on_error;  error: "STORY_NOT_MODIFIED", "FILE_PART_MISSING" or another one
OnEditStoryError(query, error) ==
  LET failed(d) ==
        IF close_flag /\ use_message_database THEN d
        ELSE IF error = "STORY_NOT_MODIFIED"
        THEN delete_pending_story_edit(d, query.pending_story, TRUE)
        ELSE IF error = "FILE_PART_MISSING"            \* on_send_story_file_parts_missing
        THEN do_send_story_edit(d, query.pending_story)
        ELSE delete_pending_story_edit(d, query.pending_story, FALSE)
  IN /\ Running
     /\ query \in edit_queries
     /\ Commit([failed([Cur EXCEPT !.edit_queries = @ \ {query}])
                 EXCEPT !.call = Call("on_error", MyId, query.pending_story.num, 0)])
     /\ UNCHANGED <<users, readVars, viewVars, sendVars, close_flag, archiveVars>>


DeleteStory(story_id, db) ==
  /\ Running
  /\ Len(delete_queries) < MaxDeletes
  /\ Commit([delete_story(Cur, story_id, db)
               EXCEPT !.call = Call("delete_story", MyId, story_id, 0)])
  /\ UNCHANGED <<users, readVars, viewVars, sendVars, close_flag, archiveVars>>

\* the server answers DeleteStoriesQuery: the promise is set and nothing else is done
OnDeleteStoriesResult(i, is_ok) ==
  /\ Running
  /\ i \in 1..Len(delete_queries)
  /\ Commit([Cur EXCEPT !.delete_queries = SubSeq(@, 1, i - 1) \o SubSeq(@, i + 1, Len(@)),
                        !.call = Call("on_result", MyId, delete_queries[i][2], IF is_ok THEN 1 ELSE 0)])
  /\ UNCHANGED <<users, readVars, viewVars, sendVars, close_flag, archiveVars>>

-----------------------------------------------------------------------------
(* Inputs *)

StoryItem(kind, id, date, expire_date, pinned, has_media) ==
  [kind |-> kind, id |-> id, date |-> date, expire_date |-> expire_date,
   pinned |-> pinned, has_media |-> has_media, caption |-> 0]

StoryItemWithCaption(story_item, caption) == [story_item EXCEPT !.caption = caption]

UserStories(max_read_id, story_items) ==
  [is_null |-> FALSE, max_read_id |-> max_read_id, stories |-> story_items]

NullUserStories == [is_null |-> TRUE, max_read_id |-> 0, stories |-> <<>>]

SeqsUpTo2(set) == {<<>>} \cup {<<x>> : x \in set} \cup {<<x, y>> : x \in set, y \in set}

-----------------------------------------------------------------------------
(* Specification of the stories and of the active stories of the owners *)

ActiveOwners == {2}

ActiveItems ==
  {StoryItem("item", 1, 1, 3, FALSE, TRUE), StoryItem("item", 2, 1, 3, FALSE, TRUE),
   StoryItem("item", 2, 0, 2, TRUE, TRUE), StoryItem("skipped", 1, 1, 2, FALSE, TRUE),
   StoryItem("item", 0, 1, 3, FALSE, TRUE), StoryItem("item", 1, 1, 3, FALSE, FALSE),
   StoryItem("deleted", 1, 0, 0, FALSE, FALSE), StoryItem("deleted", 2, 0, 0, FALSE, FALSE)}

OwnItems == {StoryItem("item", 1, 1, 2, FALSE, TRUE)}

ActiveBundleItems ==
  {StoryItem("item", 1, 1, 3, FALSE, TRUE), StoryItem("skipped", 2, 1, 2, FALSE, TRUE)}

ActiveBundles ==
  {NullUserStories}
  \cup {UserStories(r, items) :
          r \in {0, 2},
          items \in SeqsUpTo2(ActiveBundleItems) \cup {<<StoryItem("deleted", 1, 0, 0, FALSE, FALSE)>>}}

\* a handler reads a story or the active stories of an owner from the database
ActiveDbs ==
  {db \in Dbs({NoStoryValue,
               [kind |-> "story", date |-> 1, expire_date |-> 3, is_pinned |-> FALSE, has_content |-> TRUE]},
              {NoActiveValue,
               [kind |-> "value", max_read_story_id |-> 1,
                story_infos |-> <<[story_id |-> 1, date |-> 1, expire_date |-> 3],
                                 [story_id |-> 2, date |-> 1, expire_date |-> 3]>>]}) :
     db.story = NoStoryValue \/ db.active = NoActiveValue}

Next ==
  \/ Tick
  \/ \E o \in ActiveOwners, story_item \in ActiveItems, db \in ActiveDbs : OnGetStory(o, story_item, db)
  \/ \E story_item \in OwnItems : OnGetStory(MyId, story_item, NoDb)
  \/ \E o \in ActiveOwners, user_stories \in ActiveBundles, db \in ActiveDbs :
       OnGetUserStories(o, user_stories, db)
  \/ \E story_global_id \in 1..MaxGlobalId, db \in ActiveDbs : OnStoryExpireTimeout(story_global_id, db)
  \/ \E o \in ActiveOwners, max_read_story_id \in StoryIds, db \in ActiveDbs :
       OnUpdateReadStories(o, max_read_story_id, db)

\* no list state was saved
Init == InitWith(BOOLEAN, {NewStoryLists})

Spec == Init /\ [][Next]_vars

-----------------------------------------------------------------------------
(* Specification of the story lists *)

ListOwners == {2, 3}

ListUsers ==
  {NoUser,
   [is_contact |-> TRUE, stories_hidden |-> FALSE, is_premium |-> FALSE],
   [is_contact |-> TRUE, stories_hidden |-> TRUE, is_premium |-> FALSE]}

ListBundles ==
  {NullUserStories} \cup {UserStories(r, <<StoryItem("item", 1, 1, 3, FALSE, TRUE)>>) : r \in {0, 1}}

ListDbs == Dbs({NoStoryValue}, {NoActiveValue})

ListActiveValue ==
  [kind |-> "value", max_read_story_id |-> 0,
   story_infos |-> <<[story_id |-> 1, date |-> 1, expire_date |-> 3]>>]

ListDatabaseResults ==
  {[kind |-> "error", resolved |-> TRUE, active_stories |-> <<>>, next |-> MIN_DIALOG_DATE],
   [kind |-> "ok", resolved |-> TRUE, active_stories |-> <<>>, next |-> MIN_DIALOG_DATE]}
  \cup {[kind |-> "ok", resolved |-> r,
         active_stories |-> <<[dialog_id |-> 2, value |-> ListActiveValue]>>,
         next |-> DialogDate([hi |-> 4, lo |-> 1], 2)] : r \in BOOLEAN}

ListServerResults ==
  {[kind |-> "error", state |-> "", count |-> 0, has_more |-> FALSE, user_stories |-> <<>>],
   [kind |-> "notModified", state |-> "saved", count |-> 0, has_more |-> FALSE, user_stories |-> <<>>]}
  \cup {[kind |-> "allStories", state |-> "saved", count |-> c, has_more |-> h, user_stories |-> u] :
          c \in {0, 2}, h \in BOOLEAN,
          u \in {<<>>,
                 <<[dialog_id |-> 2,
                    user_stories |-> UserStories(0, <<StoryItem("item", 1, 1, 3, FALSE, TRUE)>>)]>>}}

NextLists ==
  \/ \E o \in ListOwners, user \in ListUsers : OnUserUpdated(o, user)
  \/ \E o \in ListOwners, user_stories \in ListBundles, db \in ListDbs :
       OnGetUserStories(o, user_stories, db)
  \/ \E resume \in BOOLEAN : LoadActiveStories(Main, resume)
  \/ \E result \in ListDatabaseResults, resume \in BOOLEAN :
       OnLoadActiveStoriesFromDatabase(Main, result, resume)
  \/ \E result \in ListServerResults, db \in ListDbs :
       OnLoadActiveStoriesFromServer(Main, result, db)

\* list states are saved only in a message database
InitLists ==
  \/ InitWith({FALSE}, {NewStoryLists})
  \/ InitWith({TRUE}, {l \in SavedStoryLists : l[Archive] = NewStoryList})

SpecLists == InitLists /\ [][NextLists]_vars

-----------------------------------------------------------------------------
(* Specification of the cursor of the main story list *)

CursorUsers ==
  {NoUser,
   [is_contact |-> TRUE, stories_hidden |-> FALSE, is_premium |-> FALSE],
   [is_contact |-> TRUE, stories_hidden |-> FALSE, is_premium |-> TRUE]}

CursorBundle(owner_dialog_id) ==
  [dialog_id |-> owner_dialog_id,
   user_stories |-> UserStories(0, <<StoryItem("item", 1, 1, 3, FALSE, TRUE)>>)]

CursorDatabaseResults ==
  {[kind |-> "ok", resolved |-> TRUE, active_stories |-> <<>>, next |-> MIN_DIALOG_DATE]}
  \cup {[kind |-> "ok", resolved |-> TRUE,
         active_stories |-> <<[dialog_id |-> 2, value |-> ListActiveValue]>>,
         next |-> DialogDate([hi |-> 4, lo |-> 1], 2)]}

CursorServerResults ==
  {[kind |-> "allStories", state |-> "saved", count |-> 2, has_more |-> h, user_stories |-> u] :
     h \in BOOLEAN,
     u \in {<<>>, <<CursorBundle(2)>>, <<CursorBundle(3)>>, <<CursorBundle(2), CursorBundle(3)>>}}

NextCursor ==
  \/ \E o \in ListOwners, user \in CursorUsers : OnUserUpdated(o, user)
  \/ \E o \in ListOwners, db \in ListDbs :
       OnGetUserStories(o, CursorBundle(o).user_stories, db)
  \/ \E resume \in BOOLEAN : LoadActiveStories(Main, resume)
  \/ \E result \in CursorDatabaseResults, resume \in BOOLEAN :
       OnLoadActiveStoriesFromDatabase(Main, result, resume)
  \/ \E result \in CursorServerResults, db \in ListDbs :
       OnLoadActiveStoriesFromServer(Main, result, db)

InitCursor ==
  \/ InitRecording({FALSE}, {NewStoryLists}, TRUE)
  \/ InitRecording({TRUE}, {l \in SavedStoryLists : l[Archive] = NewStoryList}, TRUE)

SpecCursor == InitCursor /\ [][NextCursor]_vars

-----------------------------------------------------------------------------

(* Specification of the viewers of the stories of the user *)

ViewersBundles ==
  {UserStories(0, <<StoryItem("item", 1, 1, 2, FALSE, TRUE)>>),
   UserStories(0, <<StoryItem("skipped", 2, 1, 2, FALSE, TRUE)>>)}

NextViewers ==
  \/ Tick
  \/ \E user_stories \in ViewersBundles : OnGetUserStories(MyId, user_stories, NoDb)
  \/ OnGetStory(MyId, StoryItem("deleted", 1, 1, 2, FALSE, TRUE), NoDb)
  \/ \E story_id \in StoryIds : GetStory(MyId, story_id, NoDb)
  \/ \E story_id \in StoryIds, has_views, from_cache \in BOOLEAN :
       GetStoryViewers(story_id, has_views, from_cache)
  \/ \E story_id \in StoryIds, is_error, is_changed \in BOOLEAN :
       OnGetStoryViewers(story_id, is_error, is_changed)
  \/ \E story_global_id \in 1..MaxGlobalId : OnStoryCanGetViewersTimeout(story_global_id)

InitViewers == InitRecording({FALSE}, {NewStoryLists}, TRUE)

SpecViewers == InitViewers /\ [][NextViewers]_vars

-----------------------------------------------------------------------------

(* Specification of the reading of active stories *)

ReadOwners == {2}

ReadItems == {StoryItem("item", 1, 1, 3, FALSE, TRUE), StoryItem("item", 2, 1, 2, FALSE, TRUE)}

ReadBundles ==
  {NullUserStories}
  \cup {UserStories(r, items) :
          r \in {0, 2},
          items \in {<<StoryItem("item", 1, 1, 3, FALSE, TRUE)>>,
                     <<StoryItem("item", 1, 1, 3, FALSE, TRUE), StoryItem("item", 2, 1, 3, FALSE, TRUE)>>}}

ReadDbs ==
  Dbs({NoStoryValue},
      {NoActiveValue,
       [kind |-> "value", max_read_story_id |-> 1,
        story_infos |-> <<[story_id |-> 1, date |-> 1, expire_date |-> 3],
                         [story_id |-> 2, date |-> 1, expire_date |-> 3]>>]})

NextRead ==
  \/ Tick
  \/ \E o \in ReadOwners, story_item \in ReadItems, db \in ReadDbs : OnGetStory(o, story_item, db)
  \/ \E o \in ReadOwners, user_stories \in ReadBundles, db \in ReadDbs :
       OnGetUserStories(o, user_stories, db)
  \/ \E story_global_id \in 1..MaxGlobalId, db \in ReadDbs : OnStoryExpireTimeout(story_global_id, db)
  \/ \E o \in ReadOwners, max_read_story_id \in StoryIds, db \in ReadDbs :
       OnUpdateReadStories(o, max_read_story_id, db)
  \/ \E o \in ReadOwners, story_id \in StoryIds, db \in ReadDbs : OpenStory(o, story_id, db)
  \/ \E o \in ReadOwners, i \in 1..MaxReadSent : OnReadStoriesResult(o, i)

SpecRead == Init /\ [][NextRead]_vars

-----------------------------------------------------------------------------
(* Specification of the views of expired pinned stories *)

ViewOwners == {2, 3}

ViewItems ==
  {StoryItem("item", 1, 1, 2, TRUE, TRUE), StoryItem("item", 2, 1, 2, TRUE, TRUE)}

NextViews ==
  \/ Tick
  \/ \E o \in ViewOwners, story_item \in ViewItems : OnGetStory(o, story_item, NoDb)
  \/ \E o \in ViewOwners, story_id \in StoryIds : OpenStory(o, story_id, NoDb)
  \/ \E o \in ViewOwners : OnIncrementStoryViews(o)
  \/ Close

SpecViews == Init /\ [][NextViews]_vars

-----------------------------------------------------------------------------
(* Specification of the sending of new stories *)

NextSend ==
  \/ SendStory(86400, FALSE, FALSE)
  \/ \E send_story_num \in 1..MaxSends, forced \in BOOLEAN, is_web \in BOOLEAN :
       OnUploadStory(send_story_num, forced, is_web)
  \/ \E send_story_num \in 1..MaxSends : OnUploadStoryError(send_story_num)
  \/ \E send_story_num \in 1..MaxSends : OnSendStoryResult(send_story_num)
  \/ \E send_story_num \in 1..MaxSends, bad_parts \in BOOLEAN :
       OnSendStoryError(send_story_num, bad_parts)
  \/ Close

SpecSend == Init /\ [][NextSend]_vars

-----------------------------------------------------------------------------
(* Specification of sendStory with every active period, the client watching *)

SendPeriods == {0, 60, 300, 3600, 6 * 3600, 12 * 3600, 86400, 86401, 2 * 86400, 3 * 86400,
                7 * 86400}

NextPeriod ==
  \/ \E active_period \in SendPeriods, is_premium \in BOOLEAN, is_test_dc \in BOOLEAN :
       SendStory(active_period, is_premium, is_test_dc)
  \/ \E send_story_num \in 1..MaxSends : OnUploadStory(send_story_num, FALSE, FALSE)
  \/ \E send_story_num \in 1..MaxSends : OnSendStoryResult(send_story_num)

InitPeriod == InitRecording(BOOLEAN, {NewStoryLists}, TRUE)

SpecPeriod == InitPeriod /\ [][NextPeriod]_vars

-----------------------------------------------------------------------------
(* Specification of the editing of a story of the user *)

EditedStoryIds == {1}

EditItems ==
  {StoryItemWithCaption(StoryItem("item", 1, 1, 3, FALSE, TRUE), c) : c \in {0, 1, 2}}
  \cup {StoryItem("deleted", 1, 0, 0, FALSE, FALSE)}

InputCaptions == {NoCaption, 1, 2}

EditErrors == {"STORY_NOT_MODIFIED", "FILE_PART_MISSING", "STORY_ID_INVALID"}

NextEdit ==
  \/ \E story_item \in EditItems : OnGetStory(MyId, story_item, NoDb)
  \/ \E story_id \in EditedStoryIds, has_input_content \in BOOLEAN, input_caption \in InputCaptions :
       EditStory(story_id, has_input_content, input_caption)
  \/ \E pending_story \in being_uploaded_edits, forced \in BOOLEAN, is_web \in BOOLEAN :
       OnUploadEditedStory(pending_story, forced, is_web)
  \/ \E pending_story \in being_uploaded_edits : OnUploadEditedStoryError(pending_story)
  \/ \E query \in edit_queries, is_ok \in BOOLEAN : OnEditStoryResult(query, is_ok)
  \/ \E finished \in finished_edits : OnEditStoryFinished(finished)
  \/ \E query \in edit_queries, error \in EditErrors : OnEditStoryError(query, error)

InitEdit == InitRecording(BOOLEAN, {NewStoryLists}, TRUE)

SpecEdit == InitEdit /\ [][NextEdit]_vars

-----------------------------------------------------------------------------
(* Specification of the sending and the editing of stories while the client *)
(* closes                                                                   *)

CloseItems == {StoryItemWithCaption(StoryItem("item", 1, 1, 3, FALSE, TRUE), 0)}

CloseErrors == {"FILE_PART_MISSING", "STORY_ID_INVALID"}

NextClose ==
  \/ \E story_item \in CloseItems : OnGetStory(MyId, story_item, NoDb)
  \/ \E has_input_content \in BOOLEAN : EditStory(1, has_input_content, 1)
  \/ \E pending_story \in being_uploaded_edits : OnUploadEditedStory(pending_story, FALSE, FALSE)
  \/ \E pending_story \in being_uploaded_edits : OnUploadEditedStoryError(pending_story)
  \/ \E query \in edit_queries, error \in CloseErrors : OnEditStoryError(query, error)
  \/ SendStory(86400, FALSE, FALSE)
  \/ \E send_story_num \in 1..MaxSends : OnUploadStory(send_story_num, FALSE, FALSE)
  \/ \E send_story_num \in 1..MaxSends : OnUploadStoryError(send_story_num)
  \/ \E send_story_num \in 1..MaxSends, bad_parts \in BOOLEAN :
       OnSendStoryError(send_story_num, bad_parts)
  \/ Close

InitClose == InitRecording({TRUE}, {NewStoryLists}, TRUE)

SpecClose == InitClose /\ [][NextClose]_vars

-----------------------------------------------------------------------------
(* Specification of the start of the client with log events in the binlog   *)

ReplayEvents ==
  {LogEvent("SendStory", MyId, 0, content, FALSE, 0, resolved) :
     content \in {"photo", "unsupported"}, resolved \in BOOLEAN}
  \cup {LogEvent("EditStory", MyId, 1, "none", TRUE, 1, resolved) : resolved \in BOOLEAN}
  \cup {LogEvent("EditStory", MyId, 1, content, FALSE, 0, TRUE) :
          content \in {"photo", "unsupported"}}
  \cup {LogEvent("DeleteStoryOnServer", o, 1, "none", FALSE, 0, TRUE) : o \in {MyId, 2}}
  \cup {LogEvent("ReadStoriesOnServer", 2, 1, "none", FALSE, 0, resolved) : resolved \in BOOLEAN}
  \cup {LogEvent("LoadDialogExpiringStories", 2, 0, "none", FALSE, 0, resolved) :
          resolved \in BOOLEAN}

\* the binlog gives the identifiers 1, 2, ... to its events
ReplayLogs ==
  {<<[e EXCEPT !.id = 1]>> : e \in ReplayEvents}
  \cup {<<[e1 EXCEPT !.id = 1], [e2 EXCEPT !.id = 2]>> : e1 \in ReplayEvents, e2 \in ReplayEvents}

ReplayDbs ==
  Dbs({NoStoryValue,
       [kind |-> "story", date |-> 1, expire_date |-> 3, is_pinned |-> FALSE,
        has_content |-> TRUE]},
      {NoActiveValue})

NextReplay ==
  \/ \E was_dialog_db_created \in BOOLEAN, db \in ReplayDbs :
       OnBinlogEvents(was_dialog_db_created, db)
  \/ \E send_story_num \in 1..MaxSends : OnUploadStory(send_story_num, FALSE, FALSE)
  \/ \E send_story_num \in 1..MaxSends : OnSendStoryResult(send_story_num)
  \/ \E pending_story \in being_uploaded_edits : OnUploadEditedStory(pending_story, FALSE, FALSE)
  \/ \E query \in edit_queries : OnEditStoryError(query, "STORY_ID_INVALID")
  \/ \E i \in 1..MaxDeletes : OnDeleteStoriesResult(i, TRUE)
  \/ \E o \in Owners : OnReadStoriesResult(o, 1)
  \/ \E o \in Owners : OnLoadDialogExpiringStories(o)
  \/ Close

InitReplay == InitBinlog(BOOLEAN, {NewStoryLists}, TRUE, ReplayLogs)

SpecReplay == InitReplay /\ [][NextReplay]_vars

-----------------------------------------------------------------------------
(* Specification of the opening and closing of the stories of the user      *)

PollItems == {StoryItem("item", id, 1, 3, FALSE, TRUE) : id \in {1, 2}}

NextPoll ==
  \/ \E story_item \in PollItems : OnGetStory(MyId, story_item, NoDb)
  \/ \E story_id \in {1, 2} : OpenStory(MyId, story_id, NoDb)
  \/ \E story_id \in {1, 2} : CloseStory(MyId, story_id)
  \/ OnInteractionInfoUpdateTimeout
  \/ \E i \in 1..MaxViewsQueries : OnGetStoryViews(i, {})
  \/ \E i \in 1..MaxViewsQueries : OnGetStoryViewsError(i)

InitPoll == InitRecording({FALSE}, {NewStoryLists}, TRUE)

SpecPoll == InitPoll /\ [][NextPoll]_vars

-----------------------------------------------------------------------------
(* Specification of the order of the owners of active stories, with dates  *)
(* at both ends of the positive int32 range                                 *)

OrderOwners == {1, 2, 4}

\* every owner becomes a contact, and owner 2 a premium user
OrderUsers(o) == {[is_contact |-> TRUE, stories_hidden |-> FALSE, is_premium |-> (o = 2)]}

\* the latest expire_date whose get_story_viewers_expire_date is still an int32, and the
\* date before it
OrderItems ==
  {StoryItem("item", 1, 1, 2147483647 - story_viewers_expiration_delay, FALSE, TRUE),
   StoryItem("item", 2, 2147483646 - story_viewers_expiration_delay,
             2147483647 - story_viewers_expiration_delay, FALSE, TRUE)}

OrderBundles == {UserStories(r, <<story_item>>) : r \in {0, 2}, story_item \in OrderItems}

NextOrder ==
  \/ \E o \in OrderOwners : \E user \in OrderUsers(o) : OnUserUpdated(o, user)
  \/ \E o \in OrderOwners, user_stories \in OrderBundles : OnGetUserStories(o, user_stories, NoDb)

InitOrder == InitRecording({FALSE}, {NewStoryLists}, FALSE)

SpecOrder == InitOrder /\ [][NextOrder]_vars

-----------------------------------------------------------------------------
(* Specification of the first loading of the Main story list from the      *)
(* server, with the updates sent to the client                              *)

LoadOwners == {1, 2, 4}

LoadOwnerStories(o) ==
  [dialog_id |-> o, user_stories |-> UserStories(0, <<StoryItem("item", 1, 1, 3, FALSE, TRUE)>>)]

\* the owners of a response come by decreasing private_order
LoadServerResults ==
  {[kind |-> "error", state |-> "", count |-> 0, has_more |-> FALSE, user_stories |-> <<>>]}
  \cup {[kind |-> "allStories", state |-> "saved", count |-> 3, has_more |-> h, user_stories |-> u] :
          h \in BOOLEAN,
          u \in {<<>>, <<LoadOwnerStories(1)>>, <<LoadOwnerStories(1), LoadOwnerStories(2)>>,
                 <<LoadOwnerStories(1), LoadOwnerStories(2), LoadOwnerStories(4)>>}}

NextLoad ==
  \/ \E o \in LoadOwners : \E user \in OrderUsers(o) : OnUserUpdated(o, user)
  \/ \E resume \in BOOLEAN : LoadActiveStories(Main, resume)
  \/ \E result \in LoadServerResults : OnLoadActiveStoriesFromServer(Main, result, NoDb)

InitLoad == InitRecording({FALSE}, {NewStoryLists}, TRUE)

SpecLoad == InitLoad /\ [][NextLoad]_vars

-----------------------------------------------------------------------------
(* Specification of the expiration of stories and of their loading from    *)
(* the database, with the updates sent and the database queries made       *)

ExpireOwners == {2}

ExpireItems ==
  {StoryItem("item", 1, 1, 2, FALSE, TRUE), StoryItem("item", 1, 1, 2, TRUE, TRUE),
   StoryItem("item", 2, 1, 3, FALSE, TRUE)}

ExpireBundles ==
  {UserStories(0, <<StoryItem("skipped", 1, 1, 2, FALSE, TRUE)>>),
   UserStories(0, <<StoryItem("skipped", 1, 1, 2, FALSE, TRUE), StoryItem("item", 2, 1, 3, FALSE, TRUE)>>)}

ExpireDbs ==
  Dbs({NoStoryValue} \cup
      {[kind |-> "story", date |-> 1, expire_date |-> 2, is_pinned |-> p, has_content |-> TRUE] :
         p \in BOOLEAN},
      {NoActiveValue})

NextExpire ==
  \/ Tick
  \/ \E o \in ExpireOwners, story_item \in ExpireItems : OnGetStory(o, story_item, NoDb)
  \/ \E story_item \in OwnItems : OnGetUserStories(MyId, UserStories(0, <<story_item>>), NoDb)
  \/ \E o \in ExpireOwners, user_stories \in ExpireBundles : OnGetUserStories(o, user_stories, NoDb)
  \/ \E story_global_id \in 1..MaxGlobalId : OnStoryExpireTimeout(story_global_id, NoDb)
  \/ \E o \in ExpireOwners, story_id \in StoryIds, db \in ExpireDbs : GetStory(o, story_id, db)

InitExpire == InitRecording(BOOLEAN, {NewStoryLists}, TRUE)

SpecExpire == InitExpire /\ [][NextExpire]_vars

-----------------------------------------------------------------------------
(* Specification of the deletion of stories, by the server and by the      *)
(* user, and of the sets of deleted, inaccessible and unloadable stories   *)

DeleteOwners == {1, 2}

DeleteItems == {StoryItem("item", 1, 1, 3, FALSE, TRUE), StoryItem("deleted", 1, 0, 0, FALSE, FALSE)}

DeleteBundles ==
  {UserStories(0, <<StoryItem("skipped", 1, 1, 3, FALSE, TRUE)>>),
   UserStories(0, <<StoryItem("item", 1, 1, 3, FALSE, TRUE)>>)}

DeleteDbs ==
  {db \in Dbs({NoStoryValue,
               [kind |-> "story", date |-> 1, expire_date |-> 3, is_pinned |-> FALSE, has_content |-> TRUE]},
              {NoActiveValue,
               [kind |-> "value", max_read_story_id |-> 0,
                story_infos |-> <<[story_id |-> 1, date |-> 1, expire_date |-> 3]>>]}) :
     db.story = NoStoryValue \/ db.active = NoActiveValue}

NextDelete ==
  \/ \E o \in DeleteOwners, story_item \in DeleteItems, db \in DeleteDbs : OnGetStory(o, story_item, db)
  \/ \E o \in DeleteOwners, user_stories \in DeleteBundles, db \in DeleteDbs :
       OnGetUserStories(o, user_stories, db)
  \/ \E o \in DeleteOwners, db \in DeleteDbs : GetStory(o, 1, db)
  \/ \E db \in DeleteDbs : DeleteStory(1, db)
  \/ \E i \in 1..MaxDeletes, is_ok \in BOOLEAN : OnDeleteStoriesResult(i, is_ok)

InitDelete == InitRecording(BOOLEAN, {NewStoryLists}, TRUE)

SpecDelete == InitDelete /\ [][NextDelete]_vars

-----------------------------------------------------------------------------
(* Specification of the stories received in userStories bundles, with the   *)
(* updates sent to the client                                               *)

IngestOwners == {2}

IngestUsers == {NoUser, [is_contact |-> TRUE, stories_hidden |-> FALSE, is_premium |-> FALSE]}

IngestItems ==
  {StoryItem("item", 1, 1, 3, FALSE, TRUE), StoryItem("item", 2, 1, 3, FALSE, TRUE),
   StoryItem("skipped", 2, 1, 3, FALSE, TRUE)}

\* bundles whose items have different identifiers
IngestBundles ==
  {NullUserStories}
  \cup {UserStories(r, items) :
          r \in {0, 2},
          items \in {i \in SeqsUpTo2(IngestItems) : Len(i) = 2 => i[1].id # i[2].id}}

IngestDbs == Dbs({NoStoryValue}, {NoActiveValue})

NextIngest ==
  \/ Tick
  \/ \E o \in IngestOwners, user \in IngestUsers : OnUserUpdated(o, user)
  \/ \E o \in IngestOwners, user_stories \in IngestBundles, db \in IngestDbs :
       OnGetUserStories(o, user_stories, db)
  \/ \E o \in IngestOwners, max_read_story_id \in StoryIds, db \in IngestDbs :
       OnUpdateReadStories(o, max_read_story_id, db)
  \/ \E o \in IngestOwners, db \in IngestDbs : GetStory(o, 2, db)   \* the story that can be a stub

InitIngest == InitRecording(BOOLEAN, {NewStoryLists}, TRUE)

SpecIngest == InitIngest /\ [][NextIngest]_vars

-----------------------------------------------------------------------------
(* C1: every story record holds a positive global identifier that no other  *)
(* record holds, and an identifier given to a record is larger than every   *)
(* identifier given before, also to a story that was deleted and is created *)
(* again.                                                                   *)

GlobalIdsDistinct ==
  /\ \A f \in DOMAIN stories :
       stories[f].global_id > 0 /\ stories[f].global_id <= max_story_global_id
  /\ \A f, g \in DOMAIN stories : f # g => stories[f].global_id # stories[g].global_id

GlobalIdsFresh ==
  \A f \in DOMAIN stories' :
    (f \notin DOMAIN stories \/ stories'[f].global_id # stories[f].global_id)
      => stories'[f].global_id > max_story_global_id

C1_GlobalIds == [](GlobalIdsDistinct) /\ [][GlobalIdsFresh]_vars

\* two records exist and one of them was registered after a deletion
C1_Witness ==
  /\ Cardinality(DOMAIN stories) = 2
  /\ \E f \in DOMAIN stories : stories[f].global_id = 3
  /\ Cardinality(DOMAIN stories_by_global_id) = 2

-----------------------------------------------------------------------------
(* C2: the story identifiers of every active-stories entry are a non-empty  *)
(* strictly ascending sequence.                                             *)

C2_SortedStoryIds ==
  \A o \in DOMAIN active_stories :
    /\ active_stories[o].story_ids # <<>>
    /\ \A i, j \in 1..Len(active_stories[o].story_ids) :
         i < j => active_stories[o].story_ids[i] < active_stories[o].story_ids[j]

-----------------------------------------------------------------------------
(* C3: the max_read_story_id of every active-stories entry is 0 or at least *)
(* the first story identifier of the entry.                                 *)

C3_MaxReadStoryId ==
  \A o \in DOMAIN active_stories :
    \/ active_stories[o].max_read_story_id = 0
    \/ active_stories[o].max_read_story_id >= active_stories[o].story_ids[1]

\* an entry whose first story is not the first of the owner keeps a read mark
C3_Witness ==
  \E o \in DOMAIN active_stories :
    /\ active_stories[o].story_ids = <<2>>
    /\ active_stories[o].max_read_story_id = 2

-----------------------------------------------------------------------------
(* C4, as stated: in every state a story list holds at most as many owners  *)
(* as its sent_total_count, also before a total count is known.             *)

C4_OrderedWithinSent ==
  \A l \in StoryListIds :
    Cardinality(story_lists[l].ordered_stories) <= story_lists[l].sent_total_count

(* C4, amended: a story list whose server_total_count is known (is not -1)  *)
(* holds at most as many owners as its sent_total_count.                    *)

C4_OrderedWithinKnownSent ==
  \A l \in StoryListIds :
    story_lists[l].server_total_count # -1 =>
      Cardinality(story_lists[l].ordered_stories) <= story_lists[l].sent_total_count

\* a list with a known total count holds two owners, more than the server counted
C4_Witness ==
  \E l \in StoryListIds :
    /\ story_lists[l].server_total_count = 0
    /\ Cardinality(story_lists[l].ordered_stories) = 2
    /\ story_lists[l].sent_total_count = 2

-----------------------------------------------------------------------------
(* C5, as stated: a fully loaded story list (list_last_story_date is the    *)
(* last date) has a sent_total_count of at least its server_total_count.    *)

C5_SentAtLeastServer ==
  \A l \in StoryListIds :
    story_lists[l].list_last_story_date = MAX_DIALOG_DATE =>
      story_lists[l].sent_total_count >= story_lists[l].server_total_count

(* C5, amended: the sent_total_count of a story list whose                  *)
(* server_total_count is known is the larger of the number of its owners    *)
(* and server_total_count while the list is not fully loaded, and the       *)
(* number of its owners once it is fully loaded.                            *)

C5_SentTotalCount ==
  \A l \in StoryListIds :
    story_lists[l].server_total_count # -1 =>
      story_lists[l].sent_total_count =
        IF story_lists[l].list_last_story_date # MAX_DIALOG_DATE
        THEN Max(Cardinality(story_lists[l].ordered_stories), story_lists[l].server_total_count)
        ELSE Cardinality(story_lists[l].ordered_stories)

\* a fully loaded list sends fewer owners than the server counted
C5_Witness ==
  \E l \in StoryListIds :
    /\ story_lists[l].list_last_story_date = MAX_DIALOG_DATE
    /\ story_lists[l].ordered_stories # {}
    /\ story_lists[l].sent_total_count < story_lists[l].server_total_count

-----------------------------------------------------------------------------
(* C6: a story list holds exactly the pairs (private_order, owner) of the   *)
(* owners whose active stories are in the list, one pair for an owner, and  *)
(* no insertion or removal assertion fails, also when an owner moves        *)
(* between the main list, the archive and no list.                          *)

C6_OrderedStories ==
  /\ ~crashed
  /\ \A l \in StoryListIds :
       story_lists[l].ordered_stories =
         {DialogDate(active_stories[o].private_order, o) :
            o \in {p \in DOMAIN active_stories : active_stories[p].story_list_id = l}}

\* one owner is in the archive, another in the main list after its stories were read
C6_Witness ==
  \E o, p \in DOMAIN active_stories :
    /\ active_stories[o].story_list_id = Archive
    /\ active_stories[p].story_list_id = Main
    /\ active_stories[p].max_read_story_id = 1

-----------------------------------------------------------------------------
(* C7: no owner has more than one increment_story_views request outstanding *)
(* at a time: a new one is issued only after the previous one has finished. *)

C7_OneIncrementQuery == \A o \in Owners : view_queries[o] <= 1

\* a story was opened while the request of its owner was outstanding, and waits
C7_Witness ==
  \E o \in DOMAIN pending_story_views :
    /\ view_queries[o] = 1
    /\ pending_story_views[o].has_query
    /\ pending_story_views[o].story_ids # {}

-----------------------------------------------------------------------------
(* C8, as stated: no owner has more than one read_stories request           *)
(* outstanding at a time.                                                   *)

ReadRequestIssued(o) ==
  /\ read_sent'[o] = Append(read_sent[o], Last(read_sent'[o]))
  /\ read_queries'[o] = Append(read_queries[o], Last(read_sent'[o]))
  /\ is_server(Last(read_sent'[o]))
  /\ is_active_story(Cur, <<o, Last(read_sent'[o])>>)
  /\ o \in DOMAIN active_stories => Last(read_sent'[o]) > active_stories[o].max_read_story_id

-----------------------------------------------------------------------------
(* C9: the max_id arguments of the read_stories requests of an owner never  *)
(* decrease.                                                                *)

C9_MonotoneReads ==
  \A o \in Owners :
    \A i, j \in 1..Len(read_sent[o]) : i < j => read_sent[o][i] <= read_sent[o][j]

-----------------------------------------------------------------------------
(* C10: the sendStory request of a new story is issued only after every new *)
(* story with a smaller send_story_num has completed or failed, whatever    *)
(* the order of the uploads and also after a repeated upload.               *)

C10_SendFifo ==
  \A i \in 1..Len(sent_requests) :
    \A send_story_num \in 1..(sent_requests[i] - 1) : send_story_num \in finished_sends

\* the first story was sent twice, its file parts were missing, and then the second
C10_Witness == sent_requests = <<1, 1, 2>>

-----------------------------------------------------------------------------
(* C11: when the upload, the request or the result of an edit is handled  *)
(* and the edit is outdated (its random_id is not the edit generation of    *)
(* the story, or the story or its being-edited entry is gone), the handler  *)
(* leaves the being-edited entries, the promises, the log events and the    *)
(* stories as they were and sends no EditStoryQuery.                        *)

OutdatedEditHandled ==
  \/ \E p \in being_uploaded_edits :
       p \notin being_uploaded_edits' /\ is_outdated_edit(Cur, p)
  \/ \E q \in edit_queries :
       q \notin edit_queries' /\ is_outdated_edit(Cur, q.pending_story)
  \/ \E f \in finished_edits :
       f \notin finished_edits' /\ is_outdated_edit(Cur, f.pending_story)

-----------------------------------------------------------------------------
(* C12: a story of the user that was never deleted is edited while an      *)
(* earlier edit of it is pending.  While a caption edit is pending the     *)
(* story object shows the caption of the latest editStory call, whatever   *)
(* updates and completions of earlier edits arrive; no promise of a        *)
(* pending edit is resolved before the entry is closed; the entry is closed *)
(* only by the completion of the latest edit, and then every promise of the *)
(* entry has received exactly one result, the result of that completion.    *)

EditedFullIds == {MyId} \X EditedStoryIds

C12_Exposed ==
  \A f \in EditedFullIds :
    /\ (/\ last_call'.name = "edit_story" /\ last_call'.arg # NoCaption
        /\ last_call'.id = f[2] /\ f \in DOMAIN being_edited_stories')
       => get_story_object(Cur', f).caption = last_call'.arg
    /\ (/\ last_call'.name # "edit_story"
        /\ f \in DOMAIN being_edited_stories /\ f \in DOMAIN being_edited_stories'
        /\ being_edited_stories[f].edit_caption)
       => get_story_object(Cur', f).caption = get_story_object(Cur, f).caption

C12_Unresolved ==
  \A f \in DOMAIN being_edited_stories :
    \A i \in 1..Len(being_edited_stories[f].promises) :
      being_edited_stories[f].promises[i] \notin DOMAIN promise_results

C12_Resolved ==
  \A f \in DOMAIN being_edited_stories :
    (f \notin DOMAIN being_edited_stories' /\ f \in DOMAIN stories')
    => /\ last_call'.id = Last(being_edited_stories[f].promises)
       /\ \A i \in 1..Len(being_edited_stories[f].promises) :
            LET promise == being_edited_stories[f].promises[i]
            IN /\ promise \in DOMAIN promise_results'
               /\ Len(promise_results'[promise]) = 1
               /\ last_call'.name = "delete_pending_story"
                  => promise_results'[promise] = <<IF last_call'.arg = 1 THEN "ok" ELSE "error">>

C12_EditsCoalesce ==
  [][max_story_global_id' = 1 => (C12_Exposed /\ C12_Unresolved' /\ C12_Resolved)]_vars

\* two edits were pending together, the second one has completed with success and resolved
\* both promises, and the completion of the first one is handled after that
C12_Witness ==
  /\ max_story_global_id = 1
  /\ last_call.name = "delete_pending_story" /\ last_call.id = 1
  /\ DOMAIN promise_results = {1, 2}
  /\ promise_results[1] = <<"ok">> /\ promise_results[2] = <<"ok">>
  /\ being_edited_stories = EmptyMap

-----------------------------------------------------------------------------
(* C13: when on_get_user_stories is called again with the owner and the    *)
(* bundle of the call before it, at the same time, the second call leaves  *)
(* the stories, the active stories and the story lists as they are and      *)
(* sends no update.                                                         *)

SameBundleAgain ==
  /\ last_call.name = "on_get_user_stories"
  /\ last_call'.name = "on_get_user_stories"
  /\ last_call' = last_call
  /\ now' = now /\ users' = users

C13_IdempotentIngestion ==
  [][SameBundleAgain =>
       /\ UNCHANGED <<stories, active_stories, story_lists>>
       /\ sent_updates' = <<>>]_vars

-----------------------------------------------------------------------------
(* C14: the private_order of the owners with active stories compares as    *)
(* the tuple (owner is self, has unread stories, owner is the changelog    *)
(* sender, owner is premium, date of the last active story) compares       *)
(* lexicographically, for dates over the positive int32 range, and the     *)
(* story list is sorted by it, the greatest first.                         *)

OrderSignals(o) ==
  LET a == active_stories[o]
      last_story_id == Last(a.story_ids)
  IN <<IF o = MyId THEN 1 ELSE 0,
       IF a.max_read_story_id < last_story_id THEN 1 ELSE 0,
       IF o = ChangelogId THEN 1 ELSE 0,
       IF users[o].is_premium THEN 1 ELSE 0,
       stories[<<o, last_story_id>>].date>>

LexLess(k1, k2) == \E i \in 1..5 : k1[i] < k2[i] /\ \A j \in 1..(i - 1) : k1[j] = k2[j]

ListedBefore(o1, o2) ==
  DialogDateLess(DialogDate(active_stories[o1].private_order, o1),
                 DialogDate(active_stories[o2].private_order, o2))

-----------------------------------------------------------------------------
(* C15: when nothing is loaded yet and the server answers the first        *)
(* request of the Main list with three owners, no more owners to come and  *)
(* count 3, the handler sends exactly one updateStoryListChatCount, for    *)
(* Main with 3, and exactly one updateChatActiveStories for each of the    *)
(* three owners.                                                           *)

UpdatesOf(updates, type, owner_dialog_id) ==
  SelectSeq(updates, LAMBDA u : u.type = type /\ u.owner_dialog_id = owner_dialog_id)

FirstFullResponse ==
  /\ stories = EmptyMap /\ active_stories = EmptyMap
  /\ story_lists[Main].server_total_count = -1 /\ story_lists[Main].ordered_stories = {}
  /\ \A o \in LoadOwners : users[o].is_contact
  /\ last_call'.name = "on_load_active_stories_from_server"
  /\ last_call'.arg.kind = "allStories" /\ ~last_call'.arg.has_more
  /\ Len(last_call'.arg.user_stories) = 3

C15_FirstLoadUpdates ==
  [][FirstFullResponse =>
       /\ UpdatesOf(sent_updates', "updateStoryListChatCount", 0)
            = <<Update("updateStoryListChatCount", 0, 0, Main, 3)>>
       /\ \A o \in LoadOwners : Len(UpdatesOf(sent_updates', "updateChatActiveStories", o)) = 1]_vars

-----------------------------------------------------------------------------
(* C16: when on_story_expire_timeout runs for a story whose expire_date is *)
(* reached, a story of another user that has content and is not pinned is  *)
(* erased from the stories and deleted from the database, any other story  *)
(* is kept as it is, and in both cases the story is not in the active      *)
(* stories of its owner afterwards, which are erased if it was the last.   *)

ExpiredFullId == <<last_call'.owner_dialog_id, last_call'.id>>

ExpireTimerFired ==
  /\ last_call'.name = "on_story_expire_timeout" /\ now' = now
  /\ ExpiredFullId \in DOMAIN stories
  /\ now >= stories[ExpiredFullId].expire_date

IsFullyDeleted(story_full_id) ==
  /\ story_full_id[1] # MyId
  /\ stories[story_full_id].has_content
  /\ ~stories[story_full_id].is_pinned

NotActiveAfter(story_full_id) ==
  /\ story_full_id[1] \in DOMAIN active_stories' =>
       ~Contains(active_stories'[story_full_id[1]].story_ids, story_full_id[2])
  /\ (/\ story_full_id[1] \in DOMAIN active_stories
      /\ active_stories[story_full_id[1]].story_ids = <<story_full_id[2]>>)
       => story_full_id[1] \notin DOMAIN active_stories'

C16_ExpiredStory ==
  [][ExpireTimerFired =>
       /\ IF IsFullyDeleted(ExpiredFullId)
          THEN /\ ExpiredFullId \notin DOMAIN stories'
               /\ use_message_database =>
                    Contains(story_db_queries', DbQuery("delete_story", ExpiredFullId))
          ELSE /\ ExpiredFullId \in DOMAIN stories'
               /\ stories'[ExpiredFullId] = stories[ExpiredFullId]
       /\ NotActiveAfter(ExpiredFullId)]_vars

\* the timer has fired for the last active story of another user, which was deleted in the
\* database, and the active stories of the user are gone
C16_Witness ==
  /\ last_call.name = "on_story_expire_timeout" /\ last_call.owner_dialog_id = 2
  /\ now >= 2 /\ last_call.now = now
  /\ <<2, last_call.id>> \notin DOMAIN stories
  /\ story_db_queries = <<DbQuery("delete_story", <<2, last_call.id>>)>>
  /\ 2 \notin DOMAIN active_stories
  /\ Len(SelectSeq(sent_updates, LAMBDA u : u.type = "updateChatActiveStories")) = 1

-----------------------------------------------------------------------------
(* C17: when get_story loads from the database a story of another user     *)
(* that is not pinned and whose expire_date is reached, the story is       *)
(* deleted from the database and nothing else happens: the stories, the    *)
(* global identifiers, the active stories and the story lists stay as they *)
(* are and no update is sent.                                              *)

LoadedFullId == <<last_call'.owner_dialog_id, last_call'.id>>

ExpiredStoryLoaded ==
  /\ last_call'.name = "get_story" /\ now' = now
  /\ use_message_database
  /\ LoadedFullId[1] # MyId
  /\ ~(LoadedFullId \in DOMAIN stories /\ stories[LoadedFullId].has_content)
  /\ LoadedFullId \notin failed_to_load_story_full_ids
  /\ LoadedFullId \notin inaccessible_story_full_ids
  /\ LoadedFullId \notin deleted_story_full_ids
  /\ last_call'.arg.story.kind = "story"
  /\ last_call'.arg.story.has_content /\ ~last_call'.arg.story.is_pinned
  /\ last_call'.arg.story.expire_date <= now

C17_ExpiredStoryFromDatabase ==
  [][ExpiredStoryLoaded =>
       /\ UNCHANGED <<stories, max_story_global_id, stories_by_global_id, active_stories, story_lists,
                      inaccessible_story_full_ids, deleted_story_full_ids>>
       /\ sent_updates' = <<>>
       /\ story_db_queries' = <<DbQuery("delete_story", LoadedFullId)>>]_vars

\* an expired story of user 2 that is not pinned was read from the database while the user
\* had active stories, and was deleted there
C17_Witness ==
  /\ last_call.name = "get_story" /\ last_call.owner_dialog_id = 2 /\ last_call.now = now
  /\ last_call.arg.story.kind = "story" /\ ~last_call.arg.story.is_pinned
  /\ last_call.arg.story.expire_date <= now
  /\ story_db_queries = <<DbQuery("delete_story", <<2, last_call.id>>)>>
  /\ <<2, last_call.id>> \in failed_to_load_story_full_ids
  /\ 2 \in DOMAIN active_stories

-----------------------------------------------------------------------------
(* C18: when on_delete_story runs for a story with a server identifier     *)
(* that is in the stories, with or without content, the story is not in    *)
(* the stories afterwards and not in the active stories of its owner.      *)

DeletedFullId == <<last_call'.owner_dialog_id, last_call'.id>>

StoryDeletedByServer ==
  /\ last_call'.name = "on_get_story" /\ last_call'.arg.kind = "deleted" /\ now' = now
  /\ DeletedFullId \in DOMAIN stories

C18_DeletedStoryGone ==
  [][StoryDeletedByServer =>
       /\ DeletedFullId \notin DOMAIN stories'
       /\ DeletedFullId[1] \in DOMAIN active_stories' =>
            ~Contains(active_stories'[DeletedFullId[1]].story_ids, DeletedFullId[2])]_vars

-----------------------------------------------------------------------------
(* C19: the stories in memory, the inaccessible stories, the deleted       *)
(* stories and the stories that failed to load are pairwise disjoint.      *)

C19_DisjointRegistry ==
  /\ DOMAIN stories \cap inaccessible_story_full_ids = {}
  /\ DOMAIN stories \cap deleted_story_full_ids = {}
  /\ DOMAIN stories \cap failed_to_load_story_full_ids = {}
  /\ inaccessible_story_full_ids \cap deleted_story_full_ids = {}
  /\ inaccessible_story_full_ids \cap failed_to_load_story_full_ids = {}
  /\ deleted_story_full_ids \cap failed_to_load_story_full_ids = {}

(* C19, as the code has it: a story in memory that has content is neither  *)
(* inaccessible, nor deleted, nor failed to load.                          *)

FullRecords == {story_full_id \in DOMAIN stories : stories[story_full_id].has_content}

C19_FullRecordsRegistered ==
  FullRecords \cap (inaccessible_story_full_ids \cup deleted_story_full_ids
                      \cup failed_to_load_story_full_ids) = {}

\* a story with content of user 2 has just been received and saved, while a story that the
\* user has deleted is both deleted and inaccessible
C19_Witness ==
  /\ <<2, 1>> \in FullRecords
  /\ last_call.name = "on_get_story" /\ last_call.owner_dialog_id = 2 /\ last_call.arg.kind = "item"
  /\ story_db_queries # <<>>
  /\ <<1, 1>> \in deleted_story_full_ids \cap inaccessible_story_full_ids

-----------------------------------------------------------------------------
(* C20: a story that delete_story has sent to the server to be deleted is  *)
(* not in the stories, at any later time.                                  *)

C20_DeletedForGood == DOMAIN stories \cap deleted_story_full_ids = {}

-----------------------------------------------------------------------------
(* C21: send_story accepts the active period 86400 for every user, the      *)
(* periods of 6 hours, 12 hours, 2, 3 and 7 days for premium users only and *)
(* the periods 60 and 300 in the test environment only; every other call is *)
(* rejected with the error 400 and changes nothing: the send counter,       *)
(* yet_unsent_stories, the SendStory log events and the files being         *)
(* uploaded stay as they were.  An accepted call takes the next number.     *)

C21_ActivePeriod ==
  [][(last_call'.name = "send_story" /\ now' = now) =>
       LET active_period == last_call'.id
           arg == last_call'.arg
           accepted ==
             \/ active_period = 86400
             \/ arg.is_premium /\ active_period \in {21600, 43200, 172800, 259200, 604800}
             \/ arg.is_test_dc /\ active_period \in {60, 300}
       IN /\ arg.code \in {0, 400}
          /\ arg.code = 0 <=> accepted
          /\ arg.code = 400 =>
               UNCHANGED <<send_story_count, yet_unsent_stories, send_binlog,
                           send_log_event_ids, being_uploaded_files, send_queries>>
          /\ arg.code = 0 =>
               /\ send_story_count' = send_story_count + 1
               /\ yet_unsent_stories' = yet_unsent_stories \cup {send_story_count'}
               /\ being_uploaded_files' = being_uploaded_files \cup {send_story_count'}]_vars

\* a premium period asked by a user without premium is rejected while a story is being sent
C21_Witness ==
  /\ last_call.name = "send_story"
  /\ last_call.id = 604800
  /\ ~last_call.arg.is_premium
  /\ last_call.arg.code = 400
  /\ yet_unsent_stories # {}
  /\ send_binlog # {}

-----------------------------------------------------------------------------
(* C22: a promise that edit_story has put into the being-edited entry of a *)
(* story is completed, with an error or with success, only by a step after *)
(* which the EditStory log event of that entry is no longer in the binlog  *)
(* and the entry is removed; as long as the log event of an edit is in the *)
(* binlog none of the promises of that edit has a result.                  *)

EditCompleted(promise) ==
  promise \in DOMAIN promise_results' /\ promise \notin DOMAIN promise_results

C22_ErasedBeforeCompleted ==
  [][\A f \in DOMAIN being_edited_stories :
       \A i \in 1..Len(being_edited_stories[f].promises) :
         EditCompleted(being_edited_stories[f].promises[i])
         => /\ f \notin DOMAIN being_edited_stories'
            /\ being_edited_stories[f].log_event_id \notin binlog'
            /\ \A g \in DOMAIN being_edited_stories' :
                 being_edited_stories'[g].log_event_id # being_edited_stories[f].log_event_id]_vars

\* the first edit had a log event, has failed and its promise has received the error
C22_Witness ==
  /\ use_message_database
  /\ last_call.name = "delete_pending_story" /\ last_call.id = 1 /\ last_call.arg = 0
  /\ 1 \in DOMAIN promise_results /\ promise_results[1] = <<"error">>
  /\ 1 \notin binlog
  /\ being_edited_stories = EmptyMap

-----------------------------------------------------------------------------
(* C23: when the error of a sendStory or editStory request, the error of    *)
(* an upload or the end of an upload is handled while the close flag is set *)
(* and there is a message database, no SendStory or EditStory log event is  *)
(* erased, the pending stories stay in yet_unsent_stories, in the files     *)
(* being uploaded and in the being-edited entries, and no promise receives  *)
(* a result.                                                                *)

ClosingHandlers ==
  {"SendStoryQuery::on_error", "on_error", "on_upload_story", "on_upload_story_error"}

C23_KeptWhileClosing ==
  [][(/\ close_flag /\ use_message_database /\ now' = now
      /\ last_call'.name \in ClosingHandlers)
     => UNCHANGED <<send_binlog, binlog, yet_unsent_stories, being_uploaded_files,
                    ready_to_send_stories, being_uploaded_edits, being_edited_stories,
                    promise_results>>]_vars

\* the request of the first story has failed while closing: the story is still unsent and its
\* log event is in the binlog; an edit with a log event is pending, too
C23_Witness ==
  /\ close_flag /\ use_message_database
  /\ last_call.name = "SendStoryQuery::on_error" /\ last_call.id = 1 /\ last_call.arg = FALSE
  /\ 1 \in yet_unsent_stories
  /\ send_log_event_ids[1] \in send_binlog
  /\ binlog # {}

-----------------------------------------------------------------------------
(* C24: on_binlog_events, when the client is not closing, erases or drives  *)
(* again every log event it is given, and never both.  SendStory and        *)
(* EditStory events are erased when there is no message database that       *)
(* existed before the start; an event whose dependencies or owner cannot be *)
(* resolved, a SendStory or EditStory event whose content is not supported, *)
(* an EditStory event whose story is not found and a DeleteStoryOnServer    *)
(* event of another owner are erased; every other SendStory event takes a   *)
(* new send_story_num, is put into yet_unsent_stories and starts its        *)
(* upload, and keeps its log event.  When the client is closing nothing is  *)
(* erased and nothing is driven again.                                      *)

ReplayStep == last_call'.name = "on_binlog_events" /\ binlog_events # <<>> /\ ~crashed'

HaveOldMessageDatabase == use_message_database /\ ~last_call'.arg

ReplayedEvents == {binlog_events[i] : i \in DOMAIN binlog_events}

IsErased(event) == event.id \notin (send_binlog' \cup binlog' \cup old_binlog')

IsSentAgain(event) ==
  \E n \in yet_unsent_stories' \ yet_unsent_stories :
    /\ n > send_story_count
    /\ send_log_event_ids'[n] = event.id
    /\ n \in being_uploaded_files'

IsDrivenAgain(event) ==
  \/ event.type = "SendStory" /\ IsSentAgain(event)
  \/ /\ event.type = "EditStory"
     /\ \E f \in DOMAIN being_edited_stories' : being_edited_stories'[f].log_event_id = event.id
  \/ /\ event.type = "DeleteStoryOnServer"
     /\ Contains(delete_queries', <<event.owner_dialog_id, event.story_id>>)
  \/ /\ event.type = "ReadStoriesOnServer"       \* one ReadStoriesQuery for every event kept
     /\ ~IsErased(event)
     /\ Len(read_queries'[event.owner_dialog_id]) - Len(read_queries[event.owner_dialog_id])
          = Cardinality({e \in ReplayedEvents :
                           /\ e.type = "ReadStoriesOnServer"
                           /\ e.owner_dialog_id = event.owner_dialog_id
                           /\ ~IsErased(e)})
  \/ /\ event.type = "LoadDialogExpiringStories"
     /\ MapGet(load_expiring_stories_log_event_ids', event.owner_dialog_id, 0) = event.id

\* the cases in which the event is erased
ErasedCases(event) ==
  /\ (event.type \in {"SendStory", "EditStory"} /\ ~HaveOldMessageDatabase) => IsErased(event)
  /\ (event.type # "DeleteStoryOnServer" /\ ~event.resolved) => IsErased(event)
  /\ (/\ event.type = "EditStory"
      /\ \/ <<event.owner_dialog_id, event.story_id>> \notin DOMAIN stories'
         \/ ~stories'[<<event.owner_dialog_id, event.story_id>>].has_content)
     => IsErased(event)
  /\ (event.type = "DeleteStoryOnServer" /\ event.owner_dialog_id # MyId) => IsErased(event)

C24_Replay ==
  [][ReplayStep =>
       IF close_flag
       THEN UNCHANGED <<send_binlog, binlog, old_binlog, sendVars, being_edited_stories,
                        delete_queries, read_queries, load_expiring_stories_log_event_ids>>
       ELSE \A event \in ReplayedEvents :
              /\ IsErased(event) # IsDrivenAgain(event)
              /\ ErasedCases(event)
              /\ (event.type \in {"SendStory", "EditStory"} /\ event.content = "unsupported")
                 => IsErased(event)
              /\ (/\ event.type = "SendStory" /\ HaveOldMessageDatabase /\ event.resolved
                  /\ event.content # "unsupported")
                 => IsSentAgain(event) /\ ~IsErased(event)]_vars

\* a SendStory event with a photo was sent again and a second one, whose content is not
\* supported, was erased
C24_Witness ==
  /\ last_call.name = "on_binlog_events"
  /\ yet_unsent_stories = {1} /\ being_uploaded_files = {1}
  /\ send_log_event_ids[1] = 1
  /\ send_binlog = {1}
  /\ send_log_event_count = 2

\* the claim as stated: every event is erased or driven again, and every SendStory event
\* that none of the listed cases erases is sent again
C24_EveryOtherSendStory ==
  [][ReplayStep =>
       \A event \in ReplayedEvents :
         /\ IsErased(event) \/ IsDrivenAgain(event)
         /\ ErasedCases(event)
         /\ (event.type = "SendStory" /\ HaveOldMessageDatabase /\ event.resolved)
            => IsSentAgain(event) /\ ~IsErased(event)]_vars

-----------------------------------------------------------------------------
(* C25: close_story for a server story of the user whose open count is zero *)
(* fails with the error 400 and leaves the opened stories as they were:     *)
(* after it opened_owned_stories_ has no entry for the story.               *)

C25_NotOpenedStory ==
  [][(/\ last_call'.name = "close_story"
      /\ last_call'.owner_dialog_id = MyId
      /\ MapGet(opened_owned_stories, <<MyId, last_call'.id>>, 0) = 0)
     => /\ last_call'.arg = 400
        /\ <<MyId, last_call'.id>> \notin DOMAIN opened_owned_stories'
        /\ UNCHANGED <<opened_owned_stories, interaction_info_update_timeout>>]_vars

-----------------------------------------------------------------------------
(* C26: load_active_stories of a list that is not fully loaded reads a page *)
(* from the database while database_has_more, otherwise asks the server     *)
(* while server_has_more, and otherwise finishes the list: the cursor       *)
(* list_last_story_date becomes the last date, every owner of the list      *)
(* beyond the old cursor is published with its order, sent_total_count is   *)
(* computed again and the request fails with 404.  A fully loaded list      *)
(* stays fully loaded, and load_active_stories of it fails with 404 and     *)
(* asks neither the database nor the server.                                *)

LoadedList == last_call'.id

LoadStep == last_call'.name = "load_active_stories"

BeyondCursor(story_list) ==
  {p \in story_list.ordered_stories : DialogDateLess(story_list.list_last_story_date, p)}

IsPublished(owner_dialog_id) ==
  /\ owner_dialog_id \in DOMAIN active_stories'
  /\ active_stories'[owner_dialog_id].public_order = active_stories'[owner_dialog_id].private_order
  /\ active_stories'[owner_dialog_id].public_order # ZeroOrder
  /\ \E i \in 1..Len(sent_updates') :
       /\ sent_updates'[i].type = "updateChatActiveStories"
       /\ sent_updates'[i].owner_dialog_id = owner_dialog_id

CountedAgain(story_list) ==
  story_list.server_total_count # -1 =>
    story_list.sent_total_count = Cardinality(story_list.ordered_stories)

LoadRequests(story_list) ==
  <<story_list.load_list_from_database_queries, story_list.load_list_from_server_queries>>

C26_LoadActiveStories ==
  [][/\ \A l \in StoryListIds :
          story_lists[l].list_last_story_date = MAX_DIALOG_DATE =>
            story_lists'[l].list_last_story_date = MAX_DIALOG_DATE
     /\ LoadStep =>
          /\ ~crashed'
          /\ IF story_lists[LoadedList].list_last_story_date = MAX_DIALOG_DATE
             THEN /\ last_call'.arg = 404
                  /\ story_lists' = story_lists
                  /\ active_stories' = active_stories
                  /\ sent_updates' = <<>>
             ELSE IF story_lists[LoadedList].database_has_more
             THEN /\ last_call'.arg = 0
                  /\ story_lists' =
                       [story_lists EXCEPT ![LoadedList].load_list_from_database_queries = @ + 1]
                  /\ sent_updates' = <<>>
             ELSE IF story_lists[LoadedList].server_has_more
             THEN /\ last_call'.arg = 0
                  /\ LoadRequests(story_lists'[LoadedList]) =
                       <<0, story_lists[LoadedList].load_list_from_server_queries + 1>>
                  /\ story_lists'[LoadedList].list_last_story_date =
                       story_lists[LoadedList].list_last_story_date
                  /\ sent_updates' = <<>>
             ELSE /\ last_call'.arg = 404
                  /\ story_lists'[LoadedList].list_last_story_date = MAX_DIALOG_DATE
                  /\ LoadRequests(story_lists'[LoadedList]) = LoadRequests(story_lists[LoadedList])
                  /\ \A p \in BeyondCursor(story_lists[LoadedList]) : IsPublished(p.dialog_id)
                  /\ CountedAgain(story_lists'[LoadedList])]_vars

\* the list was finished with an owner beyond the cursor, which was published
C26_Witness ==
  /\ last_call.name = "load_active_stories" /\ last_call.arg = 404
  /\ story_lists[Main].list_last_story_date = MAX_DIALOG_DATE
  /\ story_lists[Main].ordered_stories # {}
  /\ story_lists[Main].sent_total_count = Cardinality(story_lists[Main].ordered_stories)
  /\ \E i \in 1..Len(sent_updates) : sent_updates[i].type = "updateChatActiveStories"
  /\ \E i \in 1..Len(sent_updates) : sent_updates[i].type = "updateStoryListChatCount"

-----------------------------------------------------------------------------
(* C28: in every state the public_order of the active stories of an owner   *)
(* that are in a story list is their private_order if the pair              *)
(* (private_order, owner) is not beyond the cursor list_last_story_date of  *)
(* the list, and 0 if it is beyond; the public_order of active stories that *)
(* are in no list is 0.  The cursor is moved by a page of the database, a   *)
(* page of the server and the end of the list.                              *)

PublicOrder(owner_dialog_id) ==
  LET a == active_stories[owner_dialog_id]
  IN IF /\ a.story_list_id # NoList
        /\ DialogDateLessEq(DialogDate(a.private_order, owner_dialog_id),
                            story_lists[a.story_list_id].list_last_story_date)
     THEN a.private_order
     ELSE ZeroOrder

C28_PublicOrder ==
  \A o \in DOMAIN active_stories : active_stories[o].public_order = PublicOrder(o)

\* after a page of the server one owner of the main list is within the cursor and
\* another is beyond it
C28_Witness ==
  /\ last_call.name = "on_load_active_stories_from_server"
  /\ story_lists[Main].list_last_story_date \notin {MIN_DIALOG_DATE, MAX_DIALOG_DATE}
  /\ \E o, p \in DOMAIN active_stories :
       /\ active_stories[o].story_list_id = Main /\ active_stories[p].story_list_id = Main
       /\ active_stories[o].public_order = active_stories[o].private_order
       /\ active_stories[p].public_order = ZeroOrder

-----------------------------------------------------------------------------
(* C29, as stated: when a stories.allStories response was processed, every  *)
(* owner that was in ordered_stories of the list within the range the       *)
(* response covers and that is not in the response has no active stories    *)
(* and no pair in ordered_stories any more, and the owners that are not in  *)
(* the response and outside the range are as they were.  The range begins   *)
(* after the cursor for a next-page request and at the start for a          *)
(* first-page request, and ends at the greatest pair (private_order, owner) *)
(* of the response, or at the end of the list when has_more is false.       *)

ServerPageStep ==
  /\ last_call'.name = "on_load_active_stories_from_server"
  /\ last_call'.arg.kind = "allStories"

PageList == last_call'.id

ReturnedOwners ==
  {last_call'.arg.user_stories[i].dialog_id : i \in DOMAIN last_call'.arg.user_stories}

ReturnedDates ==
  {DialogDate(active_stories'[o].private_order, o) : o \in ReturnedOwners \cap DOMAIN active_stories'}

IsCovered(p, has_more) ==
  /\ active_stories[p.dialog_id].story_list_id = PageList
  /\ DialogDateLess(IF story_lists[PageList].is_next
                    THEN story_lists[PageList].list_last_story_date ELSE MIN_DIALOG_DATE, p)
  /\ has_more => \E q \in ReturnedDates : DialogDateLessEq(p, q)

AbsentOwners == DOMAIN active_stories \ ReturnedOwners

OwnerDate(o) == DialogDate(active_stories[o].private_order, o)

IsDeletedFromList(o) ==
  /\ o \notin DOMAIN active_stories'
  /\ \A l \in StoryListIds : \A p \in story_lists'[l].ordered_stories : p.dialog_id # o

IsUntouched(o) ==
  /\ o \in DOMAIN active_stories'
  /\ active_stories'[o] = active_stories[o]
  /\ \A l \in StoryListIds :
       OwnerDate(o) \in story_lists'[l].ordered_stories <=> OwnerDate(o) \in story_lists[l].ordered_stories

ServerPage(has_more) ==
  \A o \in AbsentOwners :
    IF IsCovered(OwnerDate(o), has_more) THEN IsDeletedFromList(o) ELSE IsUntouched(o)

C29_ServerPage ==
  [][ServerPageStep => ServerPage(last_call'.arg.has_more)]_vars

(* C29, amended: the same, where the range also ends at the end of the list *)
(* when the response has no owners.                                         *)

C29_ServerPageOrEmpty ==
  [][ServerPageStep =>
       ServerPage(last_call'.arg.has_more /\ last_call'.arg.user_stories # <<>>)]_vars

\* a next page with more to come named one owner, and the other owner of the list, which
\* was before it in the range, was deleted
C29_Witness ==
  /\ last_call.name = "on_load_active_stories_from_server"
  /\ last_call.arg.kind = "allStories" /\ last_call.arg.has_more
  /\ Len(last_call.arg.user_stories) = 1
  /\ story_lists[Main].is_next
  /\ Cardinality(story_lists[Main].ordered_stories) = 1
  /\ story_lists[Main].list_last_story_date # MAX_DIALOG_DATE
  /\ \E i \in 1..Len(sent_updates) :
       /\ sent_updates[i].type = "updateChatActiveStories"
       /\ sent_updates[i].count = 0
       /\ sent_updates[i].owner_dialog_id # last_call.arg.user_stories[1].dialog_id

-----------------------------------------------------------------------------
(* C27: when the timer of the viewers fires for a story of the user whose   *)
(* viewers have expired (the time is expire_date plus the expiration delay  *)
(* or later), the cached viewers of the story are erased and one            *)
(* updateStory is sent if the story has content and was sent to the client, *)
(* and none otherwise; the story object of that update has no viewers to    *)
(* get.  When the viewers have not expired, nothing is erased, no update is *)
(* sent and the timer is set again for the time that is left.               *)

ViewersFullId == <<last_call'.owner_dialog_id, last_call'.id>>

ViewersTimerFired ==
  /\ last_call'.name = "on_story_can_get_viewers_timeout" /\ now' = now
  /\ last_call'.owner_dialog_id = MyId
  /\ ViewersFullId \in DOMAIN stories

ViewersExpired == now >= stories[ViewersFullId].expire_date + story_viewers_expiration_delay

C27_ViewersTimeout ==
  [][ViewersTimerFired =>
       IF ViewersExpired
       THEN /\ ViewersFullId \notin DOMAIN cached_story_viewers'
            /\ \A f \in DOMAIN cached_story_viewers \ {ViewersFullId} :
                 f \in DOMAIN cached_story_viewers'
            /\ Len(sent_updates') =
                 IF /\ stories[ViewersFullId].has_content
                    /\ stories[ViewersFullId].is_update_sent
                 THEN 1 ELSE 0
            /\ \A i \in 1..Len(sent_updates') :
                 /\ sent_updates'[i].type = "updateStory"
                 /\ sent_updates'[i].story_id = ViewersFullId[2]
                 /\ ~can_get_story_viewers([now |-> now', stories |-> stories'], ViewersFullId)
            /\ set_timeouts' = <<>>
       ELSE /\ cached_story_viewers' = cached_story_viewers
            /\ stories' = stories
            /\ sent_updates' = <<>>
            /\ \E i \in 1..Len(set_timeouts') :
                 set_timeouts'[i] =
                   SetTimeout("story_can_get_viewers_timeout", last_call'.arg.story_global_id,
                              stories[ViewersFullId].expire_date + story_viewers_expiration_delay - now)]_vars

\* the timer fired after the viewers of a story with cached viewers had expired: the
\* cached viewers are gone and the story was sent again
C27_Witness ==
  /\ last_call.name = "on_story_can_get_viewers_timeout" /\ last_call.now = now
  /\ last_call.owner_dialog_id = MyId
  /\ <<MyId, last_call.id>> \in DOMAIN stories
  /\ now >= stories[<<MyId, last_call.id>>].expire_date + story_viewers_expiration_delay
  /\ last_call.arg.cached_viewers
  /\ cached_story_viewers = EmptyMap
  /\ sent_updates = <<Update("updateStory", MyId, last_call.id, NoList, 0)>>

-----------------------------------------------------------------------------
(* C30: when the expiry timer fires for a story whose expire_date is not    *)
(* reached, or for a global identifier whose story is gone, nothing         *)
(* changes: no story is deleted, the active stories and the story lists     *)
(* stay as they are, no update is sent and the database is not written.     *)
(* For the story that is still active the expiry timer of the story (the   *)
(* timer of its global_id) is set again, to fire at expire_date.            *)

ExpireTimerEarly ==
  /\ last_call'.name = "on_story_expire_timeout" /\ now' = now
  /\ ExpiredFullId \in DOMAIN stories => now < stories[ExpiredFullId].expire_date

C30_EarlyExpireTimeout ==
  [][ExpireTimerEarly =>
       /\ stories' = stories
       /\ stories_by_global_id' = stories_by_global_id
       /\ active_stories' = active_stories
       /\ story_lists' = story_lists
       /\ sent_updates' = <<>>
       /\ story_db_queries' = <<>>
       /\ IF ExpiredFullId \in DOMAIN stories
          THEN \E i \in 1..Len(set_timeouts') :
                 /\ set_timeouts'[i].timer = "story_expire_timeout"
                 /\ set_timeouts'[i].story_global_id = stories[ExpiredFullId].global_id
                 /\ now + set_timeouts'[i].timeout = stories[ExpiredFullId].expire_date
          ELSE set_timeouts' = <<>>]_vars

\* the timer fired for an active story of another user, one tick before its expire_date
C30_Witness ==
  /\ last_call.name = "on_story_expire_timeout" /\ last_call.now = now
  /\ last_call.owner_dialog_id = 2
  /\ <<2, last_call.id>> \in DOMAIN stories
  /\ stories[<<2, last_call.id>>].expire_date = now + 1
  /\ 2 \in DOMAIN active_stories
  /\ set_timeouts = <<SetTimeout("story_expire_timeout", last_call.arg, 1)>>

\* the timer fired for a story that was deleted when it expired
C30_WitnessGone ==
  /\ last_call.name = "on_story_expire_timeout" /\ last_call.now = now
  /\ last_call.owner_dialog_id = 0
  /\ last_call.arg \notin DOMAIN stories_by_global_id

-----------------------------------------------------------------------------
(* C31: with a message database the EditStory log events in the binlog are *)
(* exactly the log events of the being-edited entries, one for every entry  *)
(* and a different one for every entry: a story has one EditStory event     *)
(* while it has a being-edited entry and none otherwise, whether edit_story *)
(* ran once or again, the edit was completed or the story was deleted.      *)

EditLogEventIds == {being_edited_stories[f].log_event_id : f \in DOMAIN being_edited_stories}

C31_OneEditStoryEvent ==
  use_message_database =>
    /\ binlog = EditLogEventIds
    /\ 0 \notin binlog
    /\ Cardinality(binlog) = Cardinality(DOMAIN being_edited_stories)
    /\ DOMAIN being_edited_stories \subseteq DOMAIN stories

\* the second edit_story of a story whose first edit is not completed: the log event of
\* the first call is still the only one
C31_Witness ==
  /\ use_message_database
  /\ last_call.name = "edit_story" /\ edit_story_count = 2
  /\ <<MyId, 1>> \in DOMAIN being_edited_stories
  /\ being_edited_stories[<<MyId, 1>>].promises = <<1, 2>>
  /\ binlog = {1}

-----------------------------------------------------------------------------
(* C32: the edit generation of a story never decreases, and the generation  *)
(* of the story is held by the PendingStory of its latest edit_story only:  *)
(* an edit that is still on its way (being uploaded, sent, or finished and  *)
(* not yet handled) and is not the latest edit of the being-edited entry    *)
(* has another generation, also when the story was deleted and received     *)
(* again in between.                                                        *)

InFlightEdits ==
  being_uploaded_edits
    \cup {query.pending_story : query \in edit_queries}
    \cup {finished.pending_story : finished \in finished_edits}

LatestEdit(f) == being_edited_stories[f].promises[Len(being_edited_stories[f].promises)]

GenerationsNeverMatch ==
  \A pending_story \in InFlightEdits :
    LET f == pending_story.story_full_id
    IN (f \in DOMAIN being_edited_stories /\ MapGet(edit_generations, f, 0) = pending_story.random_id)
         => pending_story.num = LatestEdit(f)

C32_MonotoneGenerations ==
  [][/\ \A f \in EditedFullIds :
          MapGet(edit_generations', f, 0) >= MapGet(edit_generations, f, 0)
     /\ GenerationsNeverMatch']_vars

-----------------------------------------------------------------------------
(* C33: with a message database the binlog holds at most one                *)
(* ReadStoriesOnServer log event of an owner at any time.                   *)

\* the identifiers of the ReadStoriesOnServer events saved for the requests of an owner
ReadLogEventIds(o) == {save_read_stories_on_server_log_event(o, n) : n \in 1..MaxReadSent}

C33_OneReadLogEvent ==
  use_message_database => \A o \in Owners : Cardinality(old_binlog \cap ReadLogEventIds(o)) <= 1

-----------------------------------------------------------------------------
(* C34: every add_story call of the last handler has expires_at 0 when the  *)
(* story is a story of the user or is pinned, and the expire_date of the    *)
(* story otherwise, whether the story is still active or has expired.       *)

C34_StoryTtl ==
  \A i \in 1..Len(story_db_queries) :
    LET query == story_db_queries[i]
        f == query.story_full_id
    IN (query.op = "add_story" /\ f \in DOMAIN stories)
         => query.expires_at = IF is_story_owned(f[1]) \/ stories[f].is_pinned
                               THEN 0
                               ELSE stories[f].expire_date

-----------------------------------------------------------------------------
(* C35: a handler of a change that comes from the server or from the expiry *)
(* timer sends updateStory or updateStoryDeleted only for a story that was  *)
(* in stories_ with is_update_sent_ set before the handler ran; it sends    *)
(* updateStory only for a story whose record it changed, and it sends       *)
(* updateStoryDeleted for a story it erased exactly when is_update_sent_    *)
(* was set on the erased record.                                            *)

ServerChangeHandlers == {"on_get_story", "on_get_user_stories", "on_story_expire_timeout"}

UpdateFullId(update) == <<update.owner_dialog_id, update.story_id>>

WasPublished(f) == f \in DOMAIN stories /\ stories[f].is_update_sent

C35_PublishedBefore ==
  [][(last_call'.name \in ServerChangeHandlers /\ now' = now /\ ~crashed')
     => /\ \A i \in 1..Len(sent_updates') :
             LET update == sent_updates'[i]
             IN /\ update.type \in {"updateStory", "updateStoryDeleted"}
                     => WasPublished(UpdateFullId(update))
                /\ update.type = "updateStory"
                     => /\ UpdateFullId(update) \in DOMAIN stories'
                        /\ stories'[UpdateFullId(update)] # stories[UpdateFullId(update)]
        /\ \A f \in DOMAIN stories \ DOMAIN stories' :
             stories[f].is_update_sent
               <=> \E i \in 1..Len(sent_updates') :
                     /\ sent_updates'[i].type = "updateStoryDeleted"
                     /\ UpdateFullId(sent_updates'[i]) = f]_vars

\* a story that was handed to the client is pinned by the server: one updateStory
C35_Witness ==
  /\ last_call.name = "on_get_story" /\ last_call.now = now
  /\ last_call.arg.kind = "item" /\ last_call.arg.pinned
  /\ Len(sent_updates) = 1 /\ sent_updates[1].type = "updateStory"
  /\ UpdateFullId(sent_updates[1]) = <<last_call.owner_dialog_id, last_call.id>>

-----------------------------------------------------------------------------
(* C37: no handler of a server change reaches the CHECK of                  *)
(* send_update_story with a null story object: a step of on_get_story,      *)
(* on_get_user_stories or on_story_expire_timeout that starts in a running  *)
(* manager leaves it running.                                               *)
C37_StoryObjectNotNull ==
  [][(~crashed /\ last_call'.name \in ServerChangeHandlers) => ~crashed']_vars

-----------------------------------------------------------------------------
(* Specification of the saving of active stories to the database: stories  *)
(* arrive and expire, the clock runs, and ContactsManager changes users     *)

SaveOwners == {2}

SaveUsers ==
  {[is_contact |-> TRUE, stories_hidden |-> h, is_premium |-> p] : h, p \in BOOLEAN}

SaveBundles ==
  {UserStories(0, <<StoryItem("item", 1, 1, 2, FALSE, TRUE)>>),
   UserStories(0, <<StoryItem("item", 1, 1, 2, FALSE, TRUE), StoryItem("item", 2, 1, 3, FALSE, TRUE)>>)}

NextSave ==
  \/ Tick
  \/ \E o \in SaveOwners, user \in SaveUsers : OnUserUpdated(o, user)
  \/ \E o \in SaveOwners, user_stories \in SaveBundles : OnGetUserStories(o, user_stories, NoDb)
  \/ \E story_global_id \in 1..MaxGlobalId : OnStoryExpireTimeout(story_global_id, NoDb)

InitSave == InitRecording(BOOLEAN, {NewStoryLists}, TRUE)

SpecSave == InitSave /\ [][NextSave]_vars

-----------------------------------------------------------------------------
(* C38: the order recomputation that follows a change of a user never      *)
(* fails the CHECK of SavedActiveStories::store: a step in which            *)
(* ContactsManager changes a user and that starts in a running manager      *)
(* leaves the manager running.                                              *)
C38_SavedStoriesNotEmpty ==
  [][(~crashed /\ users' # users) => ~crashed']_vars

-----------------------------------------------------------------------------
(* Synchronisation of the option archive_all_stories with the server *)

MaxOptionChanges == 3     \* changes of the option archive_all_stories in one run

ArchiveState ==
  [archive_all_stories |-> archive_all_stories,
   need_synchronize_archive_all_stories |-> need_synchronize_archive_all_stories,
   has_active_synchronize_archive_all_stories_query |->
     has_active_synchronize_archive_all_stories_query,
   toggle_queries |-> toggle_queries, toggle_sent |-> toggle_sent,
   close_flag |-> close_flag, crashed |-> crashed]

\* Variant that sends a request although one is in flight.
try_synchronize_archive_all_stories_again(a) ==
  IF a.close_flag THEN a
  ELSE IF ~a.need_synchronize_archive_all_stories THEN a
  ELSE [a EXCEPT !.has_active_synchronize_archive_all_stories_query = TRUE,
                 !.toggle_queries = Append(@, a.archive_all_stories),
                 !.toggle_sent = Append(@, a.archive_all_stories)]

try_synchronize_archive_all_stories(a) ==
  IF a.close_flag THEN a
  ELSE IF a.has_active_synchronize_archive_all_stories_query THEN a
  ELSE IF ~a.need_synchronize_archive_all_stories THEN a
  ELSE [a EXCEPT !.has_active_synchronize_archive_all_stories_query = TRUE,
                 !.toggle_queries = Append(@, a.archive_all_stories),
                 !.toggle_sent = Append(@, a.archive_all_stories)]

\* the result of the request is used only to ask ConfigManager for the app config
on_synchronized_archive_all_stories(a, set_archive_all_stories) ==
  IF a.close_flag THEN a
  ELSE IF ~a.has_active_synchronize_archive_all_stories_query
  THEN Crash(a)            \* CHECK(has_active_synchronize_archive_all_stories_query_)
  ELSE IF a.archive_all_stories # set_archive_all_stories
  THEN try_synchronize_archive_all_stories(
         [a EXCEPT !.has_active_synchronize_archive_all_stories_query = FALSE])
  ELSE [a EXCEPT !.has_active_synchronize_archive_all_stories_query = FALSE,
                 !.need_synchronize_archive_all_stories = FALSE]

CommitArchive(t) ==
  \E done \in {t} :
    /\ archive_all_stories' = done.archive_all_stories
    /\ need_synchronize_archive_all_stories' = done.need_synchronize_archive_all_stories
    /\ has_active_synchronize_archive_all_stories_query' =
         done.has_active_synchronize_archive_all_stories_query
    /\ toggle_queries' = done.toggle_queries
    /\ toggle_sent' = done.toggle_sent
    /\ crashed' = done.crashed
    /\ UNCHANGED <<now, use_message_database, users, storeVars, readVars, viewVars, sendVars,
                   close_flag>>

\* OptionManager changes the option archive_all_stories: it sets
\* need_synchronize_archive_all_stories and calls try_synchronize_archive_all_stories
OnArchiveAllStoriesUpdated(value) ==
  /\ Running
  /\ ~close_flag
  /\ option_changes < MaxOptionChanges
  /\ value # archive_all_stories
  /\ option_changes' = option_changes + 1
  /\ CommitArchive(try_synchronize_archive_all_stories(
                     [ArchiveState EXCEPT !.archive_all_stories = value,
                                          !.need_synchronize_archive_all_stories = TRUE]))

\* the result of the first ToggleAllStoriesHiddenQuery in flight, a success or an error
OnSynchronizedArchiveAllStories(is_error) ==
  /\ Running
  /\ toggle_queries # <<>>
  /\ CommitArchive(on_synchronized_archive_all_stories(
                     [ArchiveState EXCEPT !.toggle_queries = Tail(@)], Head(toggle_queries)))
  /\ UNCHANGED option_changes

NextArchive ==
  \/ \E value \in BOOLEAN : OnArchiveAllStoriesUpdated(value)
  \/ \E is_error \in BOOLEAN : OnSynchronizedArchiveAllStories(is_error)
  \/ Close

\* the options as the last run left them, after start_up has called
\* try_synchronize_archive_all_stories
InitArchive ==
  /\ InitStore({FALSE}, {NewStoryLists}, FALSE, {<<>>})
  /\ NoPendingViews
  /\ option_changes = 0
  /\ \E value \in BOOLEAN, need \in BOOLEAN :
       \E a \in {try_synchronize_archive_all_stories(
                   [archive_all_stories |-> value, need_synchronize_archive_all_stories |-> need,
                    has_active_synchronize_archive_all_stories_query |-> FALSE,
                    toggle_queries |-> <<>>, toggle_sent |-> <<>>,
                    close_flag |-> FALSE, crashed |-> FALSE])} :
         /\ archive_all_stories = a.archive_all_stories
         /\ need_synchronize_archive_all_stories = a.need_synchronize_archive_all_stories
         /\ has_active_synchronize_archive_all_stories_query =
              a.has_active_synchronize_archive_all_stories_query
         /\ toggle_queries = a.toggle_queries
         /\ toggle_sent = a.toggle_sent

\* every request is answered
SpecArchive ==
  /\ InitArchive /\ [][NextArchive]_vars
  /\ WF_vars(\E is_error \in BOOLEAN : OnSynchronizedArchiveAllStories(is_error))

-----------------------------------------------------------------------------
(* C39: at most one ToggleAllStoriesHiddenQuery is in flight; when a        *)
(* request completes while the client is not closing and the option         *)
(* archive_all_stories differs from the value that was sent, a new request  *)
(* with the current value is issued and                                     *)
(* need_synchronize_archive_all_stories stays set; the flag is cleared only *)
(* by the completion of a request that carried the current value of the     *)
(* option; and when every request completes and the changes of the option   *)
(* have stopped, a set flag is eventually cleared unless the client closes.  *)

ToggleCompleted ==
  /\ toggle_queries # <<>> /\ toggle_queries' # toggle_queries
  /\ option_changes' = option_changes

ResentWithCurrentValue ==
  /\ toggle_queries' = <<archive_all_stories>>
  /\ toggle_sent' = Append(toggle_sent, archive_all_stories)
  /\ archive_all_stories' = archive_all_stories
  /\ need_synchronize_archive_all_stories'

ClearedByCurrentValue ==
  (need_synchronize_archive_all_stories /\ ~need_synchronize_archive_all_stories')
    => ToggleCompleted /\ Head(toggle_queries) = archive_all_stories

C39_OneToggleQuery ==
  /\ [](Len(toggle_queries) <= 1)
  /\ [][/\ (ToggleCompleted /\ ~close_flag /\ archive_all_stories # Head(toggle_queries))
             => ResentWithCurrentValue
        /\ ClearedByCurrentValue]_vars
  /\ need_synchronize_archive_all_stories
       ~> (~need_synchronize_archive_all_stories \/ close_flag)

\* the statement without the case of the closing client
C39_OneToggleQueryAlways ==
  /\ [](Len(toggle_queries) <= 1)
  /\ [][/\ (ToggleCompleted /\ archive_all_stories # Head(toggle_queries))
             => ResentWithCurrentValue
        /\ ClearedByCurrentValue]_vars
  /\ need_synchronize_archive_all_stories ~> ~need_synchronize_archive_all_stories

\* the option changed while the request of start_up was in flight, and the request
\* with the new value has followed it
C39_Witness ==
  /\ option_changes = 1 /\ ~close_flag
  /\ toggle_sent = <<FALSE, TRUE>> /\ toggle_queries = <<TRUE>>
  /\ archive_all_stories /\ need_synchronize_archive_all_stories

-----------------------------------------------------------------------------
(* Specification of the view requests of one owner, with batches of more    *)
(* than MAX_VIEWED_STORIES pending identifiers; every request is answered   *)

MaxPendingViews == 201    \* the stories opened while one request was in flight

ViewedOwners == {2}

PendingBatches == {MAX_VIEWED_STORIES, MaxPendingViews}

\* story 1 was opened and its request is in flight; the stories 1..n were opened meanwhile
ViewsInFlight(o, n) ==
  /\ pending_story_views = MapSet(EmptyMap, o, [story_ids |-> 1..n, has_query |-> TRUE])
  /\ view_queries = [p \in Owners |-> IF p = o THEN 1 ELSE 0]
  /\ viewed_story_ids = [p \in Owners |-> IF p = o THEN {1} ELSE {}]

NextViewed ==
  \/ Tick
  \/ \E o \in ViewedOwners, story_item \in ViewItems : OnGetStory(o, story_item, NoDb)
  \/ \E o \in ViewedOwners, story_id \in StoryIds : OpenStory(o, story_id, NoDb)
  \/ \E o \in ViewedOwners : OnIncrementStoryViews(o)
  \/ Close

InitViewed ==
  /\ InitStore({FALSE}, {NewStoryLists}, FALSE, {<<>>})
  /\ Synchronized
  /\ \/ NoPendingViews
     \/ \E o \in ViewedOwners, n \in PendingBatches : ViewsInFlight(o, n)

SpecViewed ==
  /\ InitViewed /\ [][NextViewed]_vars
  /\ \A o \in ViewedOwners : WF_vars(OnIncrementStoryViews(o))

-----------------------------------------------------------------------------
(* C36: while the client is not closing and every request is answered, a    *)
(* story id that waits in the bucket of an owner is eventually among the    *)
(* ids of an IncrementStoryViewsQuery of that owner; a request in flight    *)
(* carries between 1 and MAX_VIEWED_STORIES ids; ids leave the bucket only  *)
(* as the ids of the request that follows the completion of the request in  *)
(* flight, the smallest first; and a bucket exists only while a request of  *)
(* the owner is in flight: it is erased by the completion that finds it     *)
(* empty.                                                                   *)

PendingIds(o) ==
  IF o \in DOMAIN pending_story_views THEN pending_story_views[o].story_ids ELSE {}

ViewedIds == StoryIds \cup {MaxPendingViews}      \* the identifiers that are followed

RequestCarriesIds ==
  \A o \in ViewedOwners :
    view_queries[o] = 1 =>
      /\ Cardinality(viewed_story_ids[o]) >= 1
      /\ Cardinality(viewed_story_ids[o]) <= MAX_VIEWED_STORIES

BucketHasQuery ==
  \A o \in DOMAIN pending_story_views :
    /\ pending_story_views[o].has_query
    /\ ~close_flag => view_queries[o] = 1

SentAfterCompletion ==
  \A o \in ViewedOwners :
    LET sent == PendingIds(o) \ PendingIds(o)'
    IN sent # {} =>
         /\ view_queries[o] = 1 /\ view_queries'[o] = 1
         /\ viewed_story_ids'[o] = sent
         /\ PendingIds(o)' = PendingIds(o) \ sent
         /\ PendingIds(o)' # {} => Cardinality(sent) = MAX_VIEWED_STORIES
         /\ \A s \in sent, r \in PendingIds(o)' : s < r

BucketErasedWhenEmpty ==
  \A o \in ViewedOwners :
    /\ (o \in DOMAIN pending_story_views /\ o \notin DOMAIN pending_story_views')
         => PendingIds(o) = {} /\ view_queries'[o] = 0
    /\ (~close_flag /\ view_queries[o] = 1 /\ view_queries'[o] = 0)
         => o \notin DOMAIN pending_story_views'

C36_ViewsEventuallySent ==
  /\ \A o \in ViewedOwners, s \in ViewedIds :
       (s \in PendingIds(o)) ~> (s \in viewed_story_ids[o] \/ close_flag)
  /\ [](RequestCarriesIds /\ BucketHasQuery)
  /\ [][SentAfterCompletion /\ BucketErasedWhenEmpty]_vars

\* the last of MaxPendingViews waiting ids went with the second request
C36_Witness ==
  /\ ~close_flag /\ view_queries[2] = 1
  /\ viewed_story_ids[2] = {s \in 1..MaxPendingViews : s > MAX_VIEWED_STORIES}
  /\ 2 \in DOMAIN pending_story_views /\ pending_story_views[2].story_ids = {}

-----------------------------------------------------------------------------
(* Specification of the load queues of the story lists: calls of            *)
(* loadActiveStories and reload_active_stories while requests are in flight *)

MaxQueuedLoads == 2       \* promises in one load queue

QueueDatabaseResults ==
  {r \in ListDatabaseResults : r.resolved}

QueueServerResults ==
  {r \in ListServerResults :
     r.kind = "allStories" => (r.count = 2 /\ r.has_more) \/ (r.count = 0 /\ ~r.has_more /\ r.user_stories # <<>>)}

NextQueue ==
  \/ \E l \in StoryListIds, resume \in BOOLEAN : LoadActiveStoriesUpTo(l, resume, MaxQueuedLoads)
  \/ ReloadActiveStoriesUpTo(MaxQueuedLoads)
  \/ \E l \in StoryListIds, result \in QueueDatabaseResults, resume \in BOOLEAN :
       OnLoadActiveStoriesFromDatabase(l, result, resume)
  \/ \E l \in StoryListIds, result \in QueueServerResults :
       OnLoadActiveStoriesFromServer(l, result, NoDb)

InitQueue ==
  \/ InitRecording({FALSE}, {NewStoryLists}, TRUE)
  \/ InitRecording({TRUE}, {l \in SavedStoryLists : l[Archive] = NewStoryList}, TRUE)

SpecQueue == InitQueue /\ [][NextQueue]_vars

-----------------------------------------------------------------------------
(* C40: for every list at most one get_active_story_list request and at     *)
(* most one GetAllStoriesQuery are in flight, and one is in flight exactly  *)
(* while its queue of promises is not empty, so the CHECK of the response   *)
(* handlers holds; a call made while the request is in flight adds its      *)
(* promise to the queue and sends nothing; the response completes all the   *)
(* promises of the queue together, with one result, and leaves the queue    *)
(* empty; promises are completed by no other step.                          *)

LoadQueue(l, queue) ==
  IF queue = "database" THEN story_lists[l].load_list_from_database_queries
  ELSE story_lists[l].load_list_from_server_queries

LoadQueues == {"database", "server"}

OneLoadRequest ==
  \A l \in StoryListIds, queue \in LoadQueues :
    /\ load_requests[l][queue] <= 1
    /\ load_requests[l][queue] = 1 <=> LoadQueue(l, queue) > 0

QueuedBehindRequest ==
  \A l \in StoryListIds, queue \in LoadQueues :
    LoadQueue(l, queue)' > LoadQueue(l, queue) =>
      /\ LoadQueue(l, queue)' = LoadQueue(l, queue) + 1
      /\ load_requests'[l][queue] = 1
      /\ LoadQueue(l, queue) > 0 => load_requests'[l][queue] = load_requests[l][queue]
      /\ load_promise_results' = <<>>

CompletedByResponse ==
  /\ \A l \in StoryListIds, queue \in LoadQueues :
       LoadQueue(l, queue)' < LoadQueue(l, queue) =>
         /\ LoadQueue(l, queue)' = 0 /\ load_requests'[l][queue] = 0
         /\ Len(load_promise_results') = 1
         /\ load_promise_results'[1].story_list_id = l
         /\ load_promise_results'[1].queue = queue
         /\ load_promise_results'[1].count = LoadQueue(l, queue)
  /\ load_promise_results' # <<>> =>
       \E l \in StoryListIds, queue \in LoadQueues : LoadQueue(l, queue)' < LoadQueue(l, queue)

C40_LoadQueues ==
  /\ [](OneLoadRequest /\ ~crashed)
  /\ [][QueuedBehindRequest /\ CompletedByResponse]_vars

\* the response to the GetAllStoriesQuery of Main has failed all the promises that waited
C40_Witness ==
  /\ load_promise_results = <<[story_list_id |-> Main, queue |-> "server",
                               count |-> MaxQueuedLoads, is_error |-> TRUE]>>
  /\ story_lists[Main].load_list_from_server_queries = 0
  /\ load_requests[Main].server = 0

=============================================================================
